---------------------------- MODULE Spec2Model ----------------------------
(***************************************************************************)
(* A model of the HCA chatbot server (src/server.mjs): the session store,  *)
(* the session middleware, the /api/health, /api/reset, /api/session and   *)
(* /api/ask handlers, the intent router, the language-mode detector and    *)
(* the retrieval step.                                                     *)
(*                                                                         *)
(* Texts are sequences of characters; a character is a one-character       *)
(* string, except the characters outside ASCII, which are named            *)
(* ("DEVA_KA" is one Devanagari letter, "EMOJI_WAVE" one emoji).            *)
(***************************************************************************)
EXTENDS Integers, Sequences, FiniteSets, TLC

(***************************************************************************)
(* Characters and strings                                                  *)
(***************************************************************************)

\* The text of an ASCII string literal, as a sequence of characters.
RECURSIVE T(_)
T(str) ==
    IF Len(str) = 0 THEN <<>>
    ELSE Append(T(SubSeq(str, 1, Len(str) - 1)), SubSeq(str, Len(str), Len(str)))

Range(f) == {f[i] : i \in DOMAIN f}

LowerLetters == T("abcdefghijklmnopqrstuvwxyz")
UpperLetters == T("ABCDEFGHIJKLMNOPQRSTUVWXYZ")
Digits == T("0123456789")

\* JS \w : [A-Za-z0-9_].  The pattern carries no u flag, so every character
\* outside ASCII (Devanagari letters, emoji) is a \W character.
WordChars == Range(LowerLetters) \cup Range(UpperLetters) \cup Range(Digits) \cup {"_"}

\* JS \s, and the characters String.prototype.trim removes.
Whitespace == {" ", "\t", "\n", "\r"}

\* The characters of the block U+0900..U+097F that the model names.
Devanagari == {"DEVA_KA", "DEVA_YA", "DEVA_HA", "DEVA_NA", "DEVA_MA"}

\* Vowel signs of the same block (they are characters of the block too).
DevanagariSigns == {"DEVA_AA", "DEVA_II", "DEVA_E", "DEVA_AI"}

\* The emoji the patterns name.
Emoji == {"EMOJI_WAVE", "EMOJI_PRAY", "EMOJI_JOY", "EMOJI_THUMB"}

\* String.prototype.toLowerCase, character by character.
toLowerChar(c) ==
    IF c \in Range(UpperLetters)
    THEN LowerLetters[CHOOSE i \in DOMAIN UpperLetters : UpperLetters[i] = c]
    ELSE c

RECURSIVE toLowerCase(_)
toLowerCase(s) ==
    IF s = <<>> THEN <<>> ELSE <<toLowerChar(Head(s))>> \o toLowerCase(Tail(s))

\* String.prototype.trim.
RECURSIVE trimStart(_)
trimStart(s) ==
    IF s # <<>> /\ Head(s) \in Whitespace THEN trimStart(Tail(s)) ELSE s

RECURSIVE trimEnd(_)
trimEnd(s) ==
    IF s # <<>> /\ s[Len(s)] \in Whitespace
    THEN trimEnd(SubSeq(s, 1, Len(s) - 1))
    ELSE s

trim(s) == trimEnd(trimStart(s))

\* String.prototype.includes / startsWith / endsWith.
startsWithAt(s, sub, i) ==
    /\ i + Len(sub) - 1 <= Len(s)
    /\ \A k \in 1..Len(sub) : s[i + k - 1] = sub[k]

includes(s, sub) == \E i \in 1..(Len(s) + 1) : startsWithAt(s, sub, i)

startsWith(s, sub) == startsWithAt(s, sub, 1)

endsWith(s, sub) ==
    /\ Len(sub) <= Len(s)
    /\ startsWithAt(s, sub, Len(s) - Len(sub) + 1)

(***************************************************************************)
(* Regular expressions.  A pattern is a tagged tuple; Ends(re, s, i) is    *)
(* the set of positions j such that re matches s[i..j-1].  The patterns    *)
(* of the server all carry the i flag and name only lower-case letters,    *)
(* so they are matched against the lower-cased text.                       *)
(***************************************************************************)

Lit(str) == <<"lit", T(str)>>
Chr(c) == <<"lit", <<c>>>>
Set(cs) == <<"set", cs>>
Alt(rs) == <<"alt", rs>>
Cat(rs) == <<"seq", rs>>
Plus(r) == <<"plus", r>>
Star(r) == <<"star", r>>
Opt(r) == <<"opt", r>>
AtLeast(n, r) == <<"atleast", n, r>>
WB == <<"wb">>
WS0 == Star(Set(Whitespace))

\* \b : exactly one of the characters around position i is a \w character.
IsWordAt(s, i) == i >= 1 /\ i <= Len(s) /\ s[i] \in WordChars

IsBoundary(s, i) == IsWordAt(s, i - 1) # IsWordAt(s, i)

RECURSIVE Ends(_, _, _)
RECURSIVE EndsSeq(_, _, _, _)
RECURSIVE EndsPlus(_, _, _)
RECURSIVE EndsAtLeast(_, _, _, _)

Ends(re, s, i) ==
    CASE re[1] = "lit" ->
           IF startsWithAt(s, re[2], i) THEN {i + Len(re[2])} ELSE {}
      [] re[1] = "set" ->
           IF i <= Len(s) /\ s[i] \in re[2] THEN {i + 1} ELSE {}
      [] re[1] = "alt" ->
           UNION {Ends(re[2][k], s, i) : k \in DOMAIN re[2]}
      [] re[1] = "seq" -> EndsSeq(re[2], 1, s, {i})
      [] re[1] = "plus" -> EndsPlus(re[2], s, i)
      [] re[1] = "star" -> {i} \cup EndsPlus(re[2], s, i)
      [] re[1] = "opt" -> {i} \cup Ends(re[2], s, i)
      [] re[1] = "atleast" -> EndsAtLeast(re[2], re[3], s, i)
      [] re[1] = "wb" -> IF IsBoundary(s, i) THEN {i} ELSE {}

EndsSeq(rs, k, s, from) ==
    IF k > Len(rs) THEN from
    ELSE EndsSeq(rs, k + 1, s, UNION {Ends(rs[k], s, j) : j \in from})

EndsPlus(r, s, i) ==
    LET first == Ends(r, s, i)
    IN  first \cup UNION {EndsPlus(r, s, j) : j \in {e \in first : e > i}}

EndsAtLeast(n, r, s, i) ==
    IF n = 0 THEN {i} \cup EndsPlus(r, s, i)
    ELSE UNION {EndsAtLeast(n - 1, r, s, j) : j \in Ends(r, s, i)}

\* RegExp.prototype.test of an /.../i pattern: a match at some start position.
test(re, s) ==
    LET t == toLowerCase(s)
    IN  \E i \in 1..(Len(t) + 1) : Ends(re, t, i) # {}

\* The same for a pattern that begins with ^ : the match starts the text.
testAnchored(re, s) == Ends(re, toLowerCase(s), 1) # {}

(***************************************************************************)
(* Language mode: detectResponseMode                                       *)
(***************************************************************************)

RECURSIVE TAll(_)
TAll(ws) == IF ws = <<>> THEN <<>> ELSE <<T(Head(ws))>> \o TAll(Tail(ws))

hinglishTokens ==
    TAll(
    << "hai", "hain", "tha", "thi", "the", "kya", "kyu", "kyun", "kyunki", "kisi", "kis",
       "kaun", "kab", "kaha", "kahaan", "kaise", "nahi", "nahin", "ka", "ki", "ke", "mein",
       "me", "mai", "mei", "hum", "ap", "aap", "tum", "kr", "kar", "karo", "karna",
       "chahiye", "bhi", "sirf", "jaldi", "kitna", "ho", "hoga", "hogaya", "krdo", "pls",
       "plz", "yaar", "shukriya", "dhanyavaad", "dhanyavad" >>)

\* The test of line 94 for one marker word t, on the lower-cased text.
markerHit(text, t) ==
    \/ includes(text, <<" ">> \o t \o <<" ">>)
    \/ startsWith(text, t \o <<" ">>)
    \/ endsWith(text, <<" ">> \o t)
    \/ text = t

\* The number of marker words of the list that hit (score += 1 for each).
markerScore(text) ==
    Cardinality({i \in DOMAIN hinglishTokens : markerHit(text, hinglishTokens[i])})

\* /[:)(!?]{2,}|\.{3,}|EMOJI_JOY|EMOJI_THUMB|EMOJI_PRAY/g
chatCueRe ==
    Alt(<< AtLeast(2, Set({":", ")", "(", "!", "?"})),
           AtLeast(3, Set({"."})),
           Chr("EMOJI_JOY"), Chr("EMOJI_THUMB"), Chr("EMOJI_PRAY") >>)

\* chatCues >= 1
hasChatCue(text) == \E i \in 1..(Len(text) + 1) : Ends(chatCueRe, text, i) # {}

\* A score whose chat cue counts as much as a marker word.
modeScore2FullCue(text) == 2 * markerScore(text) + (IF hasChatCue(text) THEN 2 ELSE 0)

\* Twice the score of lines 92-97, so that the 0.5 bonus is an integer.
modeScore2(text) == 2 * markerScore(text) + (IF hasChatCue(text) THEN 1 ELSE 0)

detectResponseMode(q) ==
    LET text == toLowerCase(q)
    IN  IF \E i \in DOMAIN text : text[i] \in Devanagari \cup DevanagariSigns
        THEN "hinglish"
        ELSE IF modeScore2(text) >= 4 THEN "hinglish" ELSE "english"

(***************************************************************************)
(* Stopwords and cleanForEmbedding                                         *)
(***************************************************************************)

EN_STOPWORDS ==
    {T(w) : w \in
      { "a", "about", "above", "after", "again", "against", "all", "am", "an", "and", "any",
        "are", "aren't", "as", "at", "be", "because", "been", "before", "being", "below",
        "between", "both", "but", "by", "can't", "cannot", "could", "couldn't", "did",
        "didn't", "do", "does", "doesn't", "doing", "don't", "down", "during", "each", "few",
        "for", "from", "further", "had", "hadn't", "has", "hasn't", "have", "haven't",
        "having", "he", "he'd", "he'll", "he's", "her", "here", "here's", "hers", "herself",
        "him", "himself", "his", "how", "how's", "i", "i'd", "i'll", "i'm", "i've", "if",
        "in", "into", "is", "isn't", "it", "it's", "its", "itself", "let's", "me", "more",
        "most", "mustn't", "my", "myself", "no", "nor", "not", "of", "off", "on", "once",
        "only", "or", "other", "ought", "our", "ours", "ourselves", "out", "over", "own",
        "same", "shan't", "she", "she'd", "she'll", "she's", "should", "shouldn't", "so",
        "some", "such", "than", "that", "that's", "the", "their", "theirs", "them",
        "themselves", "then", "there", "there's", "these", "they", "they'd", "they'll",
        "they're", "they've", "this", "those", "through", "to", "too", "under", "until",
        "up", "very", "was", "wasn't", "we", "we'd", "we'll", "we're", "we've", "were",
        "weren't", "what", "what's", "when", "when's", "where", "where's", "which", "while",
        "who", "who's", "whom", "why", "why's", "with", "won't", "would", "wouldn't", "you",
        "you'd", "you'll", "you're", "you've", "your", "yours", "yourself", "yourselves" }}

HINGLISH_STOPWORDS ==
    {T(w) : w \in
      { "hai", "hain", "ho", "hona", "hoga", "hogi", "honge", "hote", "hota", "thi", "tha",
        "the", "kya", "kyu", "kyun", "kyunki", "kisi", "kis", "kaun", "konsa", "kab", "kaha",
        "kahaan", "kaise", "nahi", "nahin", "na", "mat", "bas", "sirf", "bhi", "hi", "to",
        "tho", "ab", "abhi", "phir", "fir", "ye", "yeh", "vo", "woh", "aisa", "waisa", "jab",
        "tab", "agar", "lekin", "magar", "par", "per", "ya", "aur", "ka", "ki", "ke", "mein",
        "me", "mai", "mei", "mujhe", "mujhko", "hume", "humko", "tumhe", "aap", "ap", "hum",
        "tum", "se", "ko", "tak", "pe", "liye", "kr", "kar", "karo", "karna", "karke",
        "krke", "krna", "ho gya", "hogaya", "chahiye", "chahie", "krdo", "kardo", "de", "do",
        "lo", "le", "dena", "lena" }}

\* The words of the Devanagari list that the named letters spell: ka, ki, ke,
\* hai, ham, me, ya, ye (DEVA_KA DEVA_AA is the word "ka", and so on).
HINDI_STOPWORDS ==
    { <<"DEVA_KA", "DEVA_AA">>, <<"DEVA_KA", "DEVA_II">>, <<"DEVA_KA", "DEVA_E">>,
      <<"DEVA_HA", "DEVA_AI">>, <<"DEVA_HA", "DEVA_MA">>, <<"DEVA_MA", "DEVA_E">>,
      <<"DEVA_YA", "DEVA_AA">>, <<"DEVA_YA", "DEVA_E">> }

PROTECTED_TOKENS ==
    {T(w) : w \in
      { "hca", "hari", "chand", "anand", "anil", "duke", "kansai", "special", "highlead",
        "merrow", "megasew", "amf", "reece", "delhi", "india", "solution", "solutions",
        "automation", "garment", "leather", "mattress" }}

\* lower.replace(/[^a-z0-9\u0900-\u097F\s]/g, " ")
stripChar(c) ==
    IF c \in Range(LowerLetters) \cup Range(Digits) \cup Devanagari \cup DevanagariSigns
            \cup Whitespace
    THEN c ELSE " "

RECURSIVE stripAll(_)
stripAll(s) == IF s = <<>> THEN <<>> ELSE <<stripChar(Head(s))>> \o stripAll(Tail(s))

\* stripped.split(/\s+/).filter(Boolean): the maximal runs of non-whitespace.
RECURSIVE splitWs(_, _, _)
splitWs(s, i, cur) ==
    IF i > Len(s) THEN (IF cur = <<>> THEN <<>> ELSE <<cur>>)
    ELSE IF s[i] \in Whitespace
         THEN (IF cur = <<>> THEN <<>> ELSE <<cur>>) \o splitWs(s, i + 1, <<>>)
         ELSE splitWs(s, i + 1, Append(cur, s[i]))

\* The filter without the PROTECTED_TOKENS test.
keepTokenUnprotected(t) ==
    t \notin EN_STOPWORDS \cup HINGLISH_STOPWORDS \cup HINDI_STOPWORDS \cup PROTECTED_TOKENS

keepToken(t) ==
    IF t \in PROTECTED_TOKENS THEN TRUE
    ELSE IF t \in EN_STOPWORDS THEN FALSE
    ELSE IF t \in HINGLISH_STOPWORDS THEN FALSE
    ELSE IF t \in HINDI_STOPWORDS THEN FALSE
    ELSE TRUE

\* Array.prototype.join(" ")
RECURSIVE joinSpace(_)
joinSpace(ts) ==
    IF ts = <<>> THEN <<>>
    ELSE IF Len(ts) = 1 THEN ts[1]
    ELSE ts[1] \o <<" ">> \o joinSpace(Tail(ts))

cleanForEmbedding(s) ==
    IF s = <<>> THEN <<>>
    ELSE LET lower == toLowerCase(s)
             stripped == stripAll(lower)
             tokens == splitWs(stripped, 1, <<>>)
             kept == SelectSeq(tokens, keepToken)
         IN  trim(joinSpace(kept))

\* Hours of the local clock the model draws from.
Hours == {4, 12}

(***************************************************************************)
(* Small talk: smallTalkMatch, makeSmallTalkReply                          *)
(***************************************************************************)

\* /^(hi+|h[iy]+|hello+|hey( there)?|hlo+|hloo+|yo+|hola|namaste|namaskar|salaam
\*    |salam|sup|wass?up|what'?s up|EMOJI_WAVE|EMOJI_PRAY)\b/i
helloRe ==
    Cat(<< Alt(<< Cat(<<Lit("h"), Plus(Lit("i"))>>),
                  Cat(<<Lit("h"), Plus(Set({"i", "y"}))>>),
                  Cat(<<Lit("hell"), Plus(Lit("o"))>>),
                  Cat(<<Lit("hey"), Opt(Lit(" there"))>>),
                  Cat(<<Lit("hl"), Plus(Lit("o"))>>),
                  Cat(<<Lit("hlo"), Plus(Lit("o"))>>),
                  Cat(<<Lit("y"), Plus(Lit("o"))>>),
                  Lit("hola"), Lit("namaste"), Lit("namaskar"), Lit("salaam"),
                  Lit("salam"), Lit("sup"),
                  Cat(<<Lit("was"), Opt(Lit("s")), Lit("up")>>),
                  Cat(<<Lit("what"), Opt(Lit("'")), Lit("s up")>>),
                  Chr("EMOJI_WAVE"), Chr("EMOJI_PRAY") >>),
           WB >>)

\* /^good\s*morning\b/i, /^good\s*afternoon\b/i, /^good\s*evening\b/i
morningRe == Cat(<<Lit("good"), WS0, Lit("morning"), WB>>)
afternoonRe == Cat(<<Lit("good"), WS0, Lit("afternoon"), WB>>)
eveningRe == Cat(<<Lit("good"), WS0, Lit("evening"), WB>>)

\* /^(ok+|okay+|okk+|hmm+|haan+|ha+|sure|done|great|nice|cool|perfect|thik|theek|fine)\b/i
ackRe ==
    Cat(<< Alt(<< Cat(<<Lit("o"), Plus(Lit("k"))>>),
                  Cat(<<Lit("oka"), Plus(Lit("y"))>>),
                  Cat(<<Lit("ok"), Plus(Lit("k"))>>),
                  Cat(<<Lit("hm"), Plus(Lit("m"))>>),
                  Cat(<<Lit("haa"), Plus(Lit("n"))>>),
                  Cat(<<Lit("h"), Plus(Lit("a"))>>),
                  Lit("sure"), Lit("done"), Lit("great"), Lit("nice"), Lit("cool"),
                  Lit("perfect"), Lit("thik"), Lit("theek"), Lit("fine") >>),
           WB >>)

\* /^(thanks|thank\s*you|thx|ty|much\s*(appreciated|thanks)|many\s*thanks
\*    |appreciate(d)?|shukriya|dhanyavaad|dhanyavad)\b/i
thanksRe ==
    Cat(<< Alt(<< Lit("thanks"),
                  Cat(<<Lit("thank"), WS0, Lit("you")>>),
                  Lit("thx"), Lit("ty"),
                  Cat(<<Lit("much"), WS0, Alt(<<Lit("appreciated"), Lit("thanks")>>)>>),
                  Cat(<<Lit("many"), WS0, Lit("thanks")>>),
                  Cat(<<Lit("appreciate"), Opt(Lit("d"))>>),
                  Lit("shukriya"), Lit("dhanyavaad"), Lit("dhanyavad") >>),
           WB >>)

\* /^(bye|good\s*bye|goodbye|see\s*ya|see\s*you|take\s*care|tc|catch\s*you\s*later)\b/i
byeRe ==
    Cat(<< Alt(<< Lit("bye"),
                  Cat(<<Lit("good"), WS0, Lit("bye")>>),
                  Lit("goodbye"),
                  Cat(<<Lit("see"), WS0, Lit("ya")>>),
                  Cat(<<Lit("see"), WS0, Lit("you")>>),
                  Cat(<<Lit("take"), WS0, Lit("care")>>),
                  Lit("tc"),
                  Cat(<<Lit("catch"), WS0, Lit("you"), WS0, Lit("later")>>) >>),
           WB >>)

\* /(who\s*are\s*you|what\s*can\s*you\s*do|help|menu|options|how\s*to\s*use)\b/i
helpRe ==
    Cat(<< Alt(<< Cat(<<Lit("who"), WS0, Lit("are"), WS0, Lit("you")>>),
                  Cat(<<Lit("what"), WS0, Lit("can"), WS0, Lit("you"), WS0, Lit("do")>>),
                  Lit("help"), Lit("menu"), Lit("options"),
                  Cat(<<Lit("how"), WS0, Lit("to"), WS0, Lit("use")>>) >>),
           WB >>)

\* The pattern table of smallTalkMatch, in the order of the array.  Every
\* pattern but the last begins with ^.
patterns ==
    << [kind |-> "hello",     re |-> helloRe,     anchored |-> TRUE],
       [kind |-> "morning",   re |-> morningRe,   anchored |-> TRUE],
       [kind |-> "afternoon", re |-> afternoonRe, anchored |-> TRUE],
       [kind |-> "evening",   re |-> eveningRe,   anchored |-> TRUE],
       [kind |-> "ack",       re |-> ackRe,       anchored |-> TRUE],
       [kind |-> "thanks",    re |-> thanksRe,    anchored |-> TRUE],
       [kind |-> "bye",       re |-> byeRe,       anchored |-> TRUE],
       [kind |-> "help",      re |-> helpRe,      anchored |-> FALSE] >>

\* p.re.test(t)
patternTest(p, t) == IF p.anchored THEN testAnchored(p.re, t) ELSE test(p.re, t)

\* The kind of the first pattern that matches, or "null".
smallTalkMatch(q) ==
    LET t == trim(q)
        hits == {i \in DOMAIN patterns : patternTest(patterns[i], t)}
    IN  IF hits = {} THEN "null"
        ELSE patterns[CHOOSE i \in hits : \A j \in hits : i <= j].kind

\* getTimeOfDayGreeting, for the hour h of the local clock.
getTimeOfDayGreeting(h) ==
    IF h < 5 THEN "Good night"
    ELSE IF h < 12 THEN "Good morning"
    ELSE IF h < 17 THEN "Good afternoon"
    ELSE IF h < 21 THEN "Good evening"
    ELSE "Hello"

\* The number of phrasings the bank holds for a kind (the same in en and hi).
bankSize(kind) ==
    CASE kind = "hello" -> 3
      [] kind \in {"thanks", "bye", "ack"} -> 2
      [] kind \in {"morning", "afternoon", "evening", "help"} -> 1
      [] OTHER -> 3

\* The kind whose bank the switch of makeSmallTalkReply picks from.
bankKind(kind) ==
    IF kind \in {"hello", "morning", "afternoon", "evening", "thanks", "bye", "help", "ack"}
    THEN kind ELSE "hello"

\* A canned reply, named by its bank, kind and place in the bank; the first
\* English greeting opens with the time-of-day phrase.
cannedReply(mode, kind, i, h) ==
    << "reply", (IF mode = "hinglish" THEN "hi" ELSE "en"), kind,
       (CASE i = 1 -> "1" [] i = 2 -> "2" [] OTHER -> "3"),
       (IF mode # "hinglish" /\ kind = "hello" /\ i = 1
        THEN getTimeOfDayGreeting(h) ELSE "") >>

\* Every reply makeSmallTalkReply(kind, mode) can return: pick draws one
\* phrasing of the bank at random, and the clock gives the hour.
makeSmallTalkReply(kind, mode) ==
    {cannedReply(mode, bankKind(kind), i, h) : i \in 1..bankSize(bankKind(kind)), h \in Hours}

(***************************************************************************)
(* Vectors: cosineSim, loadVectors, the retrieval of /api/ask              *)
(***************************************************************************)

Min(a, b) == IF a <= b THEN a ELSE b

RECURSIVE SumTo(_, _)
SumTo(f, n) == IF n = 0 THEN 0 ELSE f[n] + SumTo(f, n - 1)

\* cosineSim(a, b) = dot / (sqrt(na) * sqrt(nb) || 1), kept exact as the
\* pair (num, den2) that stands for num / sqrt(den2); den2 = 0 stands for the
\* denominator 1 that || 1 puts in place of 0 (num is 0 there).
cosineSim(a, b) ==
    LET n == Min(Len(a), Len(b))
        dot == SumTo([i \in 1..n |-> a[i] * b[i]], n)
        na == SumTo([i \in 1..n |-> a[i] * a[i]], n)
        nb == SumTo([i \in 1..n |-> b[i] * b[i]], n)
    IN  [num |-> dot, den2 |-> na * nb]

Den2(x) == IF x.den2 = 0 THEN 1 ELSE x.den2

Sgn(n) == IF n > 0 THEN 1 ELSE IF n < 0 THEN 0 - 1 ELSE 0

\* x < y for two scores: num/sqrt(den2) is monotone in sgn(num)*num^2/den2.
scoreLess(x, y) ==
    Sgn(x.num) * x.num * x.num * Den2(y) < Sgn(y.num) * y.num * y.num * Den2(x)

\* const MIN_OK_SCORE = 0.18, in hundredths.
MIN_OK_SCORE == 18

\* score < MIN_OK_SCORE
belowMinScore(x) ==
    x.num <= 0 \/ 100 * 100 * x.num * x.num < MIN_OK_SCORE * MIN_OK_SCORE * Den2(x)

\* What EMB_PATH holds when the server starts: no file, a file that is not
\* JSON, a JSON file whose vectors are missing or empty, or an index.
loadVectors(file) ==
    IF ~file.exists THEN <<>>                    \* throws: Embeddings not found
    ELSE IF ~file.json THEN <<>>                 \* JSON.parse throws
    ELSE IF Len(file.vectors) = 0 THEN <<>>      \* throws: no vectors
    ELSE file.vectors

\* .map((v) => ({ ...v, score: cosineSim(qVec, v.embedding) }))
withScores(vectors, qVec) ==
    [i \in 1..Len(vectors) |->
        [f \in DOMAIN vectors[i] \cup {"score"} |->
            IF f = "score" THEN cosineSim(qVec, vectors[i].embedding)
            ELSE vectors[i][f]]]

\* A sort that puts an element in front of the sorted rest without comparing.
insertFront(sorted, x) == <<x>> \o sorted

\* Array.prototype.sort((a, b) => b.score - a.score): a stable sort, so an
\* element goes behind every element whose score is not smaller.
RECURSIVE insertDesc(_, _)
insertDesc(sorted, x) ==
    IF sorted = <<>> THEN <<x>>
    ELSE IF scoreLess(Head(sorted).score, x.score)
         THEN <<x>> \o sorted
         ELSE <<Head(sorted)>> \o insertDesc(Tail(sorted), x)

RECURSIVE sortDesc(_, _)
sortDesc(xs, n) ==
    IF n = 0 THEN <<>> ELSE insertDesc(sortDesc(xs, n - 1), xs[n])

\* .slice(0, TOP_K), for TOP_K >= 0
slice0(xs, k) == SubSeq(xs, 1, Min(k, Len(xs)))

\* const scored = VECTORS.map(...).sort(...).slice(0, TOP_K)
retrieve(vectors, qVec, k) ==
    slice0(sortDesc(withScores(vectors, qVec), Len(vectors)), k)

\* A retrieval that scores the loaded records themselves and sorts the loaded
\* array in place.
vectorsSortedInPlace(vectors, qVec) == sortDesc(withScores(vectors, qVec), Len(vectors))

\* The loaded array after lines 326-329: map returns a new array of new
\* objects ({ ...v, score }), sort orders that new array and slice copies
\* from it, so the loaded array and its records are what they were.
vectorsAfterRetrieve(vectors, qVec) == vectors

\* A gate that looks only at the length of the result.
gatedOnEmpty(scored) == Len(scored) = 0

\* scored.length === 0 || (scored?.[0]?.score ?? 0) < MIN_OK_SCORE
gated(scored) == Len(scored) = 0 \/ belowMinScore(scored[1].score)

\* Citations numbered in score order that carry the scores in reverse order.
citationsOfReversed(scored) ==
    [i \in 1..Len(scored) |-> [idx |-> i, score |-> scored[Len(scored) + 1 - i].score]]

\* citations: scored.map((s, i) => ({ idx: i + 1, score: s.score }))
citationsOf(scored) == [i \in 1..Len(scored) |-> [idx |-> i, score |-> scored[i].score]]

\* contextBlocks: block i is numbered i and holds
\* s.text_original || s.text_cleaned of the i-th ranked chunk.
contextBlocksOf(scored) ==
    [i \in 1..Len(scored) |->
        [n |-> i,
         text |-> IF scored[i].text_original # <<>> THEN scored[i].text_original
                  ELSE scored[i].text_cleaned]]

(***************************************************************************)
(* Requests.  A JS value that can arrive as a session identifier is        *)
(* undefined, a string (named by id, with its length) or a number.         *)
(***************************************************************************)

Undefined == [t |-> "undefined", id |-> 0, len |-> 0]
Str(id, len) == [t |-> "string", id |-> id, len |-> len]
Num(n) == [t |-> "number", id |-> n, len |-> 0]

\* JS truthiness: undefined, "" and 0 are falsy.
Truthy(v) ==
    CASE v.t = "string" -> v.len > 0
      [] v.t = "number" -> v.id # 0
      [] OTHER -> FALSE

\* a || b
OrElse(a, b) == IF Truthy(a) THEN a ELSE b

\* uuidv4(): the n-th identifier minted, a 36-character string no client
\* has seen before.
uuidv4(n) == Str(100 + n, 36)

\* A field of the request body that holds a text, or is absent.
Absent == [def |-> FALSE, s |-> <<>>]
Text(s) == [def |-> TRUE, s |-> s]

\* The question read with || in place of ??: an empty question gives way to
\* the message.
questionOrMessage(body) ==
    IF body.question.def /\ body.question.s # <<>> THEN body.question.s
    ELSE IF body.message.def THEN body.message.s
    ELSE <<>>

\* (req.body?.question ?? req.body?.message ?? "").toString()
questionOf(body) ==
    IF body.question.def THEN body.question.s
    ELSE IF body.message.def THEN body.message.s
    ELSE <<>>

(***************************************************************************)
(* State                                                                   *)
(***************************************************************************)

VARIABLES
    sessions,   \* the Map sid -> { history, createdAt, lastSeen }
    VECTORS,    \* the chunk records loaded at startup
    TOP_K,      \* the configured number of chunks to keep
    indexFile,  \* what EMB_PATH holds on disk
    uuidN,      \* how many identifiers uuidv4 has minted
    started,    \* how many requests have arrived
    req,        \* the /api/ask handler of each slot: where it is and its locals
    evt,        \* the handler step taken last and the response it sent, if any
    prev,       \* a summary of the step taken before it
    indexer,    \* the run of scripts/embed.mjs: where it is and its locals
    responses   \* how many responses each request has been sent

vars ==
    <<sessions, VECTORS, TOP_K, indexFile, uuidN, started, req, evt, prev, indexer, responses>>

\* Date.now(): the clock is logical.  The n-th request arrives at time n, and
\* a handler resumed after an await reads the time of the latest arrival.
DateNow(n) == n

\* Bounds of the model: the requests a behaviour takes, the largest TOP_K and
\* index of the retrieval specification, and the longest text of the routing
\* specification.
MaxRequests == 2
MaxTopK == 2
MaxChunks == 3
MaxLen == 4

Slots == {1, 2}

NoSession == [exists |-> FALSE, history |-> <<>>, createdAt |-> 0 - 1, lastSeen |-> 0 - 1]

\* The record of sid before a handler ran (NoSession when there was none).
sessionBefore(store, sid) ==
    IF sid \in DOMAIN store
    THEN [exists |-> TRUE, history |-> store[sid].history,
          createdAt |-> store[sid].createdAt, lastSeen |-> store[sid].lastSeen]
    ELSE NoSession

NoCred == [h |-> Undefined, b |-> Undefined, c |-> Undefined]
NoBody == [question |-> Absent, message |-> Absent]

Idle ==
    [pc |-> "idle", rid |-> 0, cred |-> NoCred, body |-> NoBody, sid |-> Undefined,
     cookie |-> Undefined, before |-> NoSession, q |-> <<>>, mode |-> "",
     cleanedQuery |-> <<>>, qVec |-> <<>>, scored |-> <<>>, contextBlocks |-> <<>>,
     embedCalls |-> 0, genCalls |-> 0]

NoEvt ==
    [step |-> "none", responded |-> FALSE, rid |-> 0, cred |-> NoCred, body |-> NoBody,
     sid |-> Undefined, cookie |-> Undefined, before |-> NoSession, pre |-> NoSession,
     status |-> 0, error |-> FALSE, route |-> "", mode |-> "", q |-> <<>>,
     answer |-> <<>>, citations |-> <<>>, cleared |-> FALSE, historyLength |-> 0 - 1,
     createdAt |-> 0 - 1, lastSeen |-> 0 - 1, embedCalls |-> 0, genCalls |-> 0,
     backendFailed |-> FALSE, qVec |-> <<>>, scored |-> <<>>, contextBlocks |-> <<>>]

\* What prev keeps of a step.
summary(e) ==
    [step |-> e.step, sid |-> e.sid, preLen |-> Len(e.pre.history),
     preCreatedAt |-> e.pre.createdAt]

\* res.json / res.status().json: the step e has sent a response to its request.
respond(count, e) ==
    IF ~e.responded THEN count
    ELSE IF e.rid \in DOMAIN count THEN [count EXCEPT ![e.rid] = @ + 1]
    ELSE count @@ (e.rid :> 1)

(***************************************************************************)
(* Session store: sessionMiddleware                                        *)
(***************************************************************************)

\* let sid = req.get("X-Session-ID") || req.body?.sessionId || req.cookies?.sid
suppliedSid(cred) == OrElse(OrElse(cred.h, cred.b), cred.c)

\* The check with >= in place of >.
mustMintFrom200(sid) == ~Truthy(sid) \/ sid.t # "string" \/ sid.len >= 200

\* !sid || typeof sid !== "string" || sid.length > 200
mustMint(sid) == ~Truthy(sid) \/ sid.t # "string" \/ sid.len > 200

\* A middleware that makes a new record at every request.
touchRecreating(store, sid, t) ==
    [x \in DOMAIN store \cup {sid} |->
        IF x = sid THEN [history |-> <<>>, createdAt |-> t, lastSeen |-> t] ELSE store[x]]

\* A middleware that leaves the record of a known sid as it is.
touchKeepingLastSeen(store, sid, t) ==
    IF sid \notin DOMAIN store
    THEN store @@ (sid :> [history |-> <<>>, createdAt |-> t, lastSeen |-> t])
    ELSE store

\* sessions.set(sid, { history: [], createdAt: now, lastSeen: now }) for an
\* unseen sid, else sessions.get(sid).lastSeen = now
touch(store, sid, t) ==
    IF sid \notin DOMAIN store
    THEN store @@ (sid :> [history |-> <<>>, createdAt |-> t, lastSeen |-> t])
    ELSE [store EXCEPT ![sid].lastSeen = t]

\* The middleware: the sid of the request (req.sid), the cookie it sets on
\* the response (Undefined when it sets none), whether it minted, and the
\* store it leaves.
sessionMiddleware(store, t, n, cred) ==
    LET given == suppliedSid(cred)
        mint == mustMint(given)
        sid == IF mint THEN uuidv4(n + 1) ELSE given
    IN  [sid |-> sid, cookie |-> IF mint THEN sid ELSE Undefined, minted |-> mint,
         sessions |-> touch(store, sid, t)]

\* req.session.history.push({ role, content, ts: Date.now() }), tagged with
\* the request that pushed it.
Turn(role, content, t, rid) == [role |-> role, content |-> content, ts |-> t, rid |-> rid]

\* history.unshift(...) in place of push: the turn goes in front.
unshift(store, sid, turn) == [store EXCEPT ![sid].history = <<turn>> \o @]

push(store, sid, turn) == [store EXCEPT ![sid].history = Append(@, turn)]

(***************************************************************************)
(* /api/ask, up to its first await                                         *)
(***************************************************************************)

\* q.replace(/[\W_]+/g, "")
lettersOnly(q) == SelectSeq(q, LAMBDA c : c \in WordChars \ {"_"})

\* The guard with < in place of <=.
ultraShortBelow3(q) == Len(lettersOnly(q)) < 3

\* lettersOnly.length <= 3
ultraShort(q) == Len(lettersOnly(q)) <= 3

\* cleanForEmbedding(q) || q.toLowerCase()
cleanedQueryOf(q) ==
    IF cleanForEmbedding(q) # <<>> THEN cleanForEmbedding(q) ELSE toLowerCase(q)

\* What the handler computes from the question text alone (lines 286-299,
\* 317): q, mode, the ultra-short guard, the small-talk kind, the cleaned query.
analyse(question) ==
    LET q == trim(question)
    IN  [q |-> q, mode |-> detectResponseMode(q), short |-> ultraShort(q),
         kind |-> smallTalkMatch(q), cleanedQuery |-> cleanedQueryOf(q)]

\* The branches without the check of the loaded index.
askRouteUnchecked(question, a, vectors) ==
    IF question = <<>> THEN "invalid"
    ELSE IF a.short THEN "ultrashort"
    ELSE IF a.kind # "null" THEN "smalltalk"
    ELSE "rag"

\* The branch of the handler a question takes:
\*   "invalid"     !question                       (lines 282-284)
\*   "ultrashort"  the ultra-short guard           (lines 289-296)
\*   "smalltalk"   smallTalkMatch found a kind     (lines 298-305)
\*   "noindex"     !VECTORS.length                 (lines 307-315)
\*   "rag"         the embedding call              (lines 317-322)
askRoute(question, a, vectors) ==
    IF question = <<>> THEN "invalid"
    ELSE IF a.short THEN "ultrashort"
    ELSE IF a.kind # "null" THEN "smalltalk"
    ELSE IF Len(vectors) = 0 THEN "noindex"
    ELSE "rag"

\* The kind handed to makeSmallTalkReply on a short-circuited route.
replyKind(a) == IF a.short THEN "hello" ELSE a.kind

\* The replies the handler can pick for a question: the canned replies on the
\* short-circuited routes, no reply (<<>>) elsewhere.
repliesFor(question, a, vectors) ==
    IF askRoute(question, a, vectors) \in {"ultrashort", "smalltalk"}
    THEN makeSmallTalkReply(replyKind(a), a.mode)
    ELSE {<<>>}

\* The two fixed messages, in the language of the mode.
fallbackMessage(mode) == <<"embeddings-not-loaded", IF mode = "hinglish" THEN "hi" ELSE "en">>
tipMessage(mode) == <<"no-clear-context", IF mode = "hinglish" THEN "hi" ELSE "en">>

\* The handler from the middleware to its first return or await: the store
\* it leaves, the locals it keeps (Idle when it has returned) and the step.
askStart(store, t, n, rid, cred, body, a, vectors, reply) ==
    LET mw == sessionMiddleware(store, t, n, cred)
        pre == sessionBefore(store, mw.sid)
        question == questionOf(body)
        q == a.q
        mode == a.mode
        route == askRoute(question, a, vectors)
        base == [NoEvt EXCEPT !.step = "ask", !.rid = rid, !.cred = cred, !.body = body,
                              !.sid = mw.sid, !.cookie = mw.cookie, !.before = pre,
                              !.pre = pre, !.route = route]
        said == [base EXCEPT !.responded = TRUE, !.mode = mode, !.q = q]
        both(content) ==
            push(push(mw.sessions, mw.sid, Turn("user", q, t, rid)),
                 mw.sid, Turn("assistant", content, t, rid))
    IN  CASE route = "invalid" ->
               [sessions |-> mw.sessions, req |-> Idle, minted |-> mw.minted,
                evt |-> [base EXCEPT !.responded = TRUE, !.status = 400, !.error = TRUE]]
          [] route \in {"ultrashort", "smalltalk"} ->
               [sessions |-> both(reply), req |-> Idle, minted |-> mw.minted,
                evt |-> [said EXCEPT !.status = 200, !.answer = reply]]
          [] route = "noindex" ->
               [sessions |-> both(fallbackMessage(mode)), req |-> Idle, minted |-> mw.minted,
                evt |-> [said EXCEPT !.status = 500, !.answer = fallbackMessage(mode)]]
          [] OTHER ->
               [sessions |-> mw.sessions, minted |-> mw.minted,
                req |-> [Idle EXCEPT !.pc = "embed", !.rid = rid, !.cred = cred,
                                     !.body = body, !.sid = mw.sid, !.cookie = mw.cookie,
                                     !.before = pre, !.q = q, !.mode = mode,
                                     !.cleanedQuery = a.cleanedQuery, !.embedCalls = @ + 1],
                evt |-> [base EXCEPT !.mode = mode, !.q = q, !.embedCalls = @ + 1]]

\* The status of the catch block: err?.status || 500
errorStatus(status) == IF status # 0 THEN status ELSE 500

\* The response of the catch block for the request of locals r.
errorEvt(r, store, step, status) ==
    [NoEvt EXCEPT !.step = step, !.responded = TRUE, !.rid = r.rid, !.cred = r.cred,
                  !.body = r.body, !.sid = r.sid, !.cookie = r.cookie,
                  !.before = r.before, !.pre = sessionBefore(store, r.sid),
                  !.status = errorStatus(status), !.error = TRUE, !.route = "failed",
                  !.mode = r.mode, !.q = r.q, !.embedCalls = r.embedCalls,
                  !.genCalls = r.genCalls, !.backendFailed = TRUE]

\* The handler from the return of embedder.embedContent to its next return
\* or await (lines 320-380).
afterEmbed(store, t, r, out, vectors, k) ==
    LET pre == sessionBefore(store, r.sid)
        qVec == out.values
        scored == retrieve(vectors, qVec, k)
        base == [NoEvt EXCEPT !.step = "embedReturn", !.rid = r.rid, !.cred = r.cred,
                              !.body = r.body, !.sid = r.sid, !.cookie = r.cookie,
                              !.before = r.before, !.pre = pre, !.mode = r.mode,
                              !.q = r.q, !.embedCalls = r.embedCalls,
                              !.qVec = qVec, !.scored = scored]
        user == Turn("user", r.q, t, r.rid)
    IN  IF ~out.ok
        THEN [sessions |-> store, req |-> Idle,
              evt |-> errorEvt(r, store, "embedReturn", out.status)]
        ELSE IF gated(scored)
        THEN [sessions |-> push(push(store, r.sid, user), r.sid,
                                Turn("assistant", tipMessage(r.mode), t, r.rid)),
              req |-> Idle,
              evt |-> [base EXCEPT !.responded = TRUE, !.status = 200, !.route = "gated",
                                   !.answer = tipMessage(r.mode)]]
        ELSE [sessions |-> push(store, r.sid, user),
              req |-> [r EXCEPT !.pc = "gen", !.qVec = qVec, !.scored = scored,
                                !.contextBlocks = contextBlocksOf(scored),
                                !.genCalls = @ + 1],
              evt |-> [base EXCEPT !.route = "rag", !.genCalls = r.genCalls + 1]]

\* A handler that a reset has cancelled: it pushes no assistant turn on a
\* history that was emptied while it waited.
afterGenerateUnlessCleared(store, t, r, out) ==
    IF ~out.ok
    THEN [sessions |-> store, req |-> Idle,
          evt |-> errorEvt(r, store, "genReturn", out.status)]
    ELSE [sessions |-> IF store[r.sid].history = <<>> THEN store
                      ELSE push(store, r.sid, Turn("assistant", out.text, t, r.rid)),
          req |-> Idle,
          evt |-> [NoEvt EXCEPT !.step = "genReturn", !.responded = TRUE, !.rid = r.rid,
                                !.cred = r.cred, !.body = r.body, !.sid = r.sid,
                                !.cookie = r.cookie, !.before = r.before,
                                !.pre = sessionBefore(store, r.sid), !.status = 200,
                                !.route = "answered", !.mode = r.mode, !.q = r.q,
                                !.answer = out.text, !.citations = citationsOf(r.scored),
                                !.qVec = r.qVec, !.scored = r.scored,
                                !.contextBlocks = r.contextBlocks,
                                !.embedCalls = r.embedCalls, !.genCalls = r.genCalls]]

\* The handler from the return of llm.generateContent to its response
\* (lines 380-402).
afterGenerate(store, t, r, out) ==
    IF ~out.ok
    THEN [sessions |-> store, req |-> Idle,
          evt |-> errorEvt(r, store, "genReturn", out.status)]
    ELSE [sessions |-> push(store, r.sid, Turn("assistant", out.text, t, r.rid)),
          req |-> Idle,
          evt |-> [NoEvt EXCEPT !.step = "genReturn", !.responded = TRUE, !.rid = r.rid,
                                !.cred = r.cred, !.body = r.body, !.sid = r.sid,
                                !.cookie = r.cookie, !.before = r.before,
                                !.pre = sessionBefore(store, r.sid), !.status = 200,
                                !.route = "answered", !.mode = r.mode, !.q = r.q,
                                !.answer = out.text, !.citations = citationsOf(r.scored),
                                !.qVec = r.qVec, !.scored = r.scored,
                                !.contextBlocks = r.contextBlocks,
                                !.embedCalls = r.embedCalls, !.genCalls = r.genCalls]]

(***************************************************************************)
(* Inputs                                                                  *)
(***************************************************************************)

Chunk(id, text, emb) ==
    [id |-> id, text_original |-> <<text>>, text_cleaned |-> <<text>>, embedding |-> emb]

\* An index of three chunks.
IndexA == << Chunk(0, "c0", <<1, 0>>), Chunk(1, "c1", <<0, 1>>), Chunk(2, "c2", <<1, 1>>) >>

FileMissing == [exists |-> FALSE, json |-> FALSE, vectors |-> <<>>]
FileNotJson == [exists |-> TRUE, json |-> FALSE, vectors |-> <<>>]
FileNoVectors == [exists |-> TRUE, json |-> TRUE, vectors |-> <<>>]
FileOf(index) == [exists |-> TRUE, json |-> TRUE, vectors |-> index]

IndexFiles == {FileMissing, FileNotJson, FileNoVectors, FileOf(IndexA)}

\* Session credentials of a request: the X-Session-ID header, the sessionId
\* field of the body and the sid cookie.
SidA == Str(1, 36)
KnownCreds == {[h |-> SidA, b |-> Undefined, c |-> Undefined]}
MainCreds == {NoCred} \cup KnownCreds

\* Request bodies: no question at all, an empty question beside a message,
\* a message only, small talk, and a question for retrieval.
MainBodies ==
    { NoBody,
      [question |-> Text(<<>>), message |-> Text(T("price list"))],
      [question |-> Absent, message |-> Text(T("bye"))],
      [question |-> Text(T("thanks")), message |-> Absent],
      [question |-> Text(T("price list")), message |-> Absent] }

\* What a backend call can come back with: a failure, with the status the
\* error carries (0 when it carries none), or a result.
Failure(status) == [ok |-> FALSE, status |-> status, values |-> <<>>, text |-> <<>>]
Embedding(values) == [ok |-> TRUE, status |-> 0, values |-> values, text |-> <<>>]
Generated(text) == [ok |-> TRUE, status |-> 0, values |-> <<>>, text |-> <<"generated", text>>]

\* The bodies of the routing specification: every text of at most MaxLen
\* characters over RouteAlphabet, the words of RouteWords and the texts of
\* RouteHindi, sent as the question.
RouteAlphabet == {"t", "y", "o", "k", "c", "!"}

RouteWords ==
    TAll(<<"bye", "bye!", "thx", "b_y_e", " ok ", "thanks", "good bye", "byee",
           "menu", "need help", "thanks help", "okay bye", "price list">>)

\* Questions in Devanagari script: a word of five letters, the same word
\* behind two Latin letters, and a question of several words with vowel signs.
RouteHindi ==
    { <<"DEVA_KA", "DEVA_MA", "DEVA_NA", "DEVA_YA", "DEVA_HA">>,
      <<"o", "k", " ", "DEVA_KA", "DEVA_MA", "DEVA_NA", "DEVA_YA", "DEVA_HA">>,
      <<"DEVA_MA", "DEVA_NA", " ", "DEVA_KA", "DEVA_AA", " ", "DEVA_YA", "DEVA_HA", "DEVA_E">> }

RECURSIVE TextsUpTo(_)
TextsUpTo(n) ==
    IF n = 0 THEN {<<>>}
    ELSE LET shorter == TextsUpTo(n - 1)
         IN  shorter \cup {Append(s, c) : s \in shorter, c \in RouteAlphabet}

\* Questions of two and three words, marker words of detectResponseMode among
\* them, separated by a space or by a line feed, with and without a chat cue.
ModeWords == {T("kya"), T("HAI"), T("kitna"), T("price"), T("hai!!"), T("...")}

ModeSeparators == {" ", "\n"}

ModeTexts ==
    {w1 \o <<sep>> \o w2 : w1 \in ModeWords, w2 \in ModeWords, sep \in ModeSeparators}
    \cup {w1 \o <<sep1>> \o w2 \o <<sep2>> \o T("hai?") :
            w1 \in ModeWords, w2 \in ModeWords,
            sep1 \in ModeSeparators, sep2 \in ModeSeparators}

RouteBodies ==
    {[question |-> Text(s), message |-> Absent] :
        s \in TextsUpTo(MaxLen) \cup Range(RouteWords) \cup RouteHindi \cup ModeTexts}

\* The credentials of the session specification: every header, body field and
\* cookie of these values, and every identifier minted so far as the cookie.
SidB == Str(2, 200)
SidLong == Str(3, 201)
EmptyString == Str(0, 0)
HeaderValues == {Undefined, EmptyString, SidA, SidLong}
FieldValues == {Undefined, EmptyString, Num(0), Num(7), SidB, SidLong}
CookieValues(n) == {Undefined, SidA} \cup {uuidv4(k) : k \in 1..n}
SessionCreds(n) ==
    {[h |-> h, b |-> b, c |-> c] : h \in HeaderValues, b \in FieldValues, c \in CookieValues(n)}

\* The indexes and query embeddings of the retrieval specification.
EmbeddingValues ==
    {<<1, 0>>, <<0, 1>>, <<1, 1>>, <<0 - 1, 1>>, <<0, 0>>, <<1, 5>>, <<1, 6>>}

\* The texts of the chunks of an index, by position.
chunkNames == <<"c0", "c1", "c2", "c3", "c4", "c5">>

RECURSIVE IndexesOfLen(_)
IndexesOfLen(n) ==
    IF n = 0 THEN {<<>>}
    ELSE {Append(ix, Chunk(n - 1, chunkNames[n], e)) :
            ix \in IndexesOfLen(n - 1), e \in EmbeddingValues}

RetrieveIndexes == UNION {IndexesOfLen(n) : n \in 1..MaxChunks}

QueryEmbeddings == EmbeddingValues \cup {<<>>, <<1>>}

RetrieveOutcomes == {Embedding(v) : v \in QueryEmbeddings}

RetrieveBodies == {[question |-> Text(T("price list")), message |-> Absent]}

\* The analysis of every question the inputs hold, computed once.
mainAnalysis ==
    [b \in MainBodies \cup RetrieveBodies |-> analyse(questionOf(b))]

routeAnalysis == [b \in RouteBodies |-> analyse(questionOf(b))]

analysis(body) ==
    IF body \in DOMAIN mainAnalysis THEN mainAnalysis[body] ELSE routeAnalysis[body]

\* Against IndexA the embedding <<1, 0>> scores 1 at best, and <<1, -6>> scores
\* 1 / sqrt(37), about 0.16: above 0 and below MIN_OK_SCORE.
MainEmbedOutcomes == {Failure(0), Failure(429), Embedding(<<1, 0>>), Embedding(<<1, 0 - 6>>)}
MainGenOutcomes == {Failure(0), Failure(503), Generated("g1")}

(***************************************************************************)
(* The indexer, scripts/embed.mjs                                          *)
(***************************************************************************)

Max(a, b) == IF a >= b THEN a ELSE b

\* The texts the chunker is given have at most MaxText characters, the chunk
\* size is at most MaxSize, and a batch holds MaxBatch chunks.
MaxText == 5
MaxSize == 3
MaxBatch == 2

\* const batchSize = 64, scaled to the bound.
batchSize == MaxBatch

\* const end = Math.min(start + size, text.length)
windowEnd(text, size, start) == Min(start + size, Len(text))

\* text.slice(start, end).trim()
chunkOf(text, start, end) == trim(SubSeq(text, start + 1, end))

\* start = Math.max(0, end - overlap), and a variant that skips a character.
nextStartSkipping(end, overlap) == Max(0, end - overlap + 1)

nextStart(end, overlap) == Max(0, end - overlap)

\* The indexer before main() runs.  windows is a ghost: every window
\* chunkText has cut, with the chunk it made of it.
IndexerOff ==
    [pc |-> "off", text |-> <<>>, size |-> 0, overlap |-> 0, start |-> 0,
     chunks |-> <<>>, windows |-> <<>>, i |-> 0, vectors |-> <<>>, calls |-> 0,
     before |-> FileMissing]

\* chunkText(text, size, overlap) at its first iteration.
chunkTextEntry(text, size, overlap, before) ==
    [IndexerOff EXCEPT !.pc = "chunk", !.text = text, !.size = size,
                       !.overlap = overlap, !.before = before]

\* One iteration of the while loop of chunkText; the loop is left with
\* pc = "embed", where main() goes on with the chunks.
chunkTextStep(x) ==
    IF ~(x.start < Len(x.text)) THEN [x EXCEPT !.pc = "embed"]
    ELSE
        LET end == windowEnd(x.text, x.size, x.start)
            chunk == chunkOf(x.text, x.start, end)
            pushed == IF chunk # <<>> THEN Append(x.chunks, chunk) ELSE x.chunks
            seen == Append(x.windows, [start |-> x.start, end |-> end, chunk |-> chunk])
        IN  IF end = Len(x.text)
            THEN [x EXCEPT !.chunks = pushed, !.windows = seen, !.pc = "embed"]
            ELSE [x EXCEPT !.chunks = pushed, !.windows = seen,
                           !.start = nextStart(end, x.overlap)]

\* parsed.text.replace(/\r/g, "")
RECURSIVE dropCR(_)
dropCR(s) ==
    IF s = <<>> THEN <<>>
    ELSE IF Head(s) = "\r" THEN dropCR(Tail(s))
    ELSE <<Head(s)>> \o dropCR(Tail(s))

\* .replace(/\n{2,}/g, "\n\n"): n counts the line feeds of the run being read.
RECURSIVE squeezeLF(_, _)
squeezeLF(s, n) ==
    IF s = <<>> THEN <<>>
    ELSE IF Head(s) = "\n"
         THEN (IF n < 2 THEN <<"\n">> ELSE <<>>) \o squeezeLF(Tail(s), n + 1)
         ELSE <<Head(s)>> \o squeezeLF(Tail(s), 0)

\* const text = parsed.text.replace(...).replace(...).trim()
normalise(raw) == trim(squeezeLF(dropCR(raw), 0))

\* chunks.slice(i, i + batchSize)
batchOriginal(chunks, i) == SubSeq(chunks, i + 1, Min(i + batchSize, Len(chunks)))

\* res.embeddings.map((e, j) => ({ id: i + j, ... }))
batchVectors(chunks, i, values) ==
    LET batch == batchOriginal(chunks, i)
    IN  [j \in 1..Len(batch) |->
            [id |-> i + j - 1, text_original |-> batch[j],
             text_cleaned |-> cleanForEmbedding(batch[j]), embedding |-> values]]

(***************************************************************************)
(* Actions                                                                 *)
(***************************************************************************)

Init ==
    /\ sessions = <<>>
    /\ indexFile \in IndexFiles
    /\ VECTORS = loadVectors(indexFile)
    /\ TOP_K = MaxTopK
    /\ uuidN = 0
    /\ started = 0
    /\ req = [s \in Slots |-> Idle]
    /\ evt = NoEvt
    /\ prev = summary(NoEvt)
    /\ responses = <<>>
    /\ indexer = IndexerOff

\* The indexer writes a new index file; the running server does not read it.
WriteIndexFile ==
    /\ indexFile # FileOf(IndexA)
    /\ indexFile' = FileOf(IndexA)
    /\ UNCHANGED <<sessions, VECTORS, TOP_K, uuidN, started, req, evt, prev, indexer, responses>>

\* app.get("/api/health")
Health ==
    /\ started < MaxRequests
    /\ started' = started + 1
    /\ evt' = [NoEvt EXCEPT !.step = "health", !.responded = TRUE, !.rid = started + 1,
                            !.status = 200]
    /\ prev' = summary(evt)
    /\ responses' = respond(responses, evt')
    /\ UNCHANGED <<sessions, VECTORS, TOP_K, indexFile, uuidN, req, indexer>>

\* A reset that leaves the history as it is.
keepHistory(store, sid) == store

\* req.session.history = []
resetHistory(store, sid) == [store EXCEPT ![sid].history = <<>>]

\* app.post("/api/reset", sessionMiddleware, ...)
Reset(creds, limit) ==
    /\ started < limit
    /\ \E cred \in creds :
         LET mw == sessionMiddleware(sessions, DateNow(started + 1), uuidN, cred)
         IN  /\ sessions' = resetHistory(mw.sessions, mw.sid)
             /\ uuidN' = IF mw.minted THEN uuidN + 1 ELSE uuidN
             /\ evt' = [NoEvt EXCEPT !.step = "reset", !.responded = TRUE,
                                     !.rid = started + 1, !.cred = cred, !.sid = mw.sid,
                                     !.cookie = mw.cookie,
                                     !.before = sessionBefore(sessions, mw.sid),
                                     !.pre = sessionBefore(sessions, mw.sid),
                                     !.status = 200, !.cleared = TRUE]
    /\ started' = started + 1
    /\ prev' = summary(evt)
    /\ responses' = respond(responses, evt')
    /\ UNCHANGED <<VECTORS, TOP_K, indexFile, req, indexer>>

\* The body of the /api/session response for sid.
sessionInfo(store, sid) ==
    [sessionId |-> sid, historyLength |-> Len(store[sid].history),
     createdAt |-> store[sid].createdAt, lastSeen |-> store[sid].lastSeen]

\* app.get("/api/session", sessionMiddleware, ...)
SessionInfo(creds, limit) ==
    /\ started < limit
    /\ \E cred \in creds :
         LET mw == sessionMiddleware(sessions, DateNow(started + 1), uuidN, cred)
             info == sessionInfo(mw.sessions, mw.sid)
         IN  /\ sessions' = mw.sessions
             /\ uuidN' = IF mw.minted THEN uuidN + 1 ELSE uuidN
             /\ evt' = [NoEvt EXCEPT !.step = "session", !.responded = TRUE,
                                     !.rid = started + 1, !.cred = cred,
                                     !.sid = info.sessionId, !.cookie = mw.cookie,
                                     !.before = sessionBefore(sessions, mw.sid),
                                     !.pre = sessionBefore(sessions, mw.sid),
                                     !.status = 200,
                                     !.historyLength = info.historyLength,
                                     !.createdAt = info.createdAt,
                                     !.lastSeen = info.lastSeen]
    /\ started' = started + 1
    /\ prev' = summary(evt)
    /\ responses' = respond(responses, evt')
    /\ UNCHANGED <<VECTORS, TOP_K, indexFile, req, indexer>>

\* app.post("/api/ask", sessionMiddleware, async ...): a request arrives and
\* the handler runs to its first return or await.
AskStart(creds, bodies, limit) ==
    /\ started < limit
    /\ \E slot \in Slots, cred \in creds, body \in bodies :
         /\ req[slot].pc = "idle"
         /\ \A other \in Slots : other < slot => req[other].pc # "idle"
         /\ \E reply \in repliesFor(questionOf(body), analysis(body), VECTORS) :
              LET got == askStart(sessions, DateNow(started + 1), uuidN, started + 1, cred, body,
                                  analysis(body), VECTORS, reply)
              IN  /\ sessions' = got.sessions
                  /\ uuidN' = IF got.minted THEN uuidN + 1 ELSE uuidN
                  /\ req' = [req EXCEPT ![slot] = got.req]
                  /\ evt' = got.evt
    /\ started' = started + 1
    /\ prev' = summary(evt)
    /\ responses' = respond(responses, evt')
    /\ UNCHANGED <<VECTORS, TOP_K, indexFile, indexer>>

\* An embedding call that is made once more when it fails the first time.
EmbedReturnRetrying(outcomes) ==
    /\ \E slot \in Slots, out \in outcomes :
         /\ req[slot].pc = "embed"
         /\ IF ~out.ok /\ req[slot].embedCalls < 2
            THEN /\ sessions' = sessions
                 /\ req' = [req EXCEPT ![slot].embedCalls = @ + 1]
                 /\ evt' = [NoEvt EXCEPT !.step = "embedReturn", !.rid = req[slot].rid,
                                         !.sid = req[slot].sid,
                                         !.embedCalls = req[slot].embedCalls + 1]
            ELSE LET got == afterEmbed(sessions, DateNow(started), req[slot], out,
                                       VECTORS, TOP_K)
                 IN  /\ sessions' = got.sessions
                     /\ req' = [req EXCEPT ![slot] = got.req]
                     /\ evt' = got.evt
         /\ VECTORS' = IF out.ok THEN vectorsAfterRetrieve(VECTORS, out.values)
                       ELSE VECTORS
    /\ prev' = summary(evt)
    /\ responses' = respond(responses, evt')
    /\ UNCHANGED <<TOP_K, indexFile, uuidN, started, indexer>>

\* The embedding call of a suspended handler comes back.
EmbedReturn(outcomes) ==
    /\ \E slot \in Slots, out \in outcomes :
         /\ req[slot].pc = "embed"
         /\ LET got == afterEmbed(sessions, DateNow(started), req[slot], out, VECTORS, TOP_K)
            IN  /\ sessions' = got.sessions
                /\ req' = [req EXCEPT ![slot] = got.req]
                /\ evt' = got.evt
         /\ VECTORS' = IF out.ok THEN vectorsAfterRetrieve(VECTORS, out.values)
                       ELSE VECTORS
    /\ prev' = summary(evt)
    /\ responses' = respond(responses, evt')
    /\ UNCHANGED <<TOP_K, indexFile, uuidN, started, indexer>>

\* Generation calls that come back one at a time per session: only the
\* oldest suspended request of a session may go on.
GenReturnOldestFirst(outcomes) ==
    /\ \E slot \in Slots, out \in outcomes :
         /\ req[slot].pc = "gen"
         /\ \A other \in Slots :
              (req[other].pc = "gen" /\ req[other].sid = req[slot].sid)
                  => req[slot].rid <= req[other].rid
         /\ LET got == afterGenerate(sessions, DateNow(started), req[slot], out)
            IN  /\ sessions' = got.sessions
                /\ req' = [req EXCEPT ![slot] = got.req]
                /\ evt' = got.evt
    /\ prev' = summary(evt)
    /\ responses' = respond(responses, evt')
    /\ UNCHANGED <<VECTORS, TOP_K, indexFile, uuidN, started, indexer>>

\* Generation calls behind a queue of requests: a call comes back only when no
\* older request is still in flight.
GenReturnQueued(outcomes) ==
    /\ \E slot \in Slots, out \in outcomes :
         /\ req[slot].pc = "gen"
         /\ \A other \in Slots :
              req[other].pc # "idle" => req[other].rid >= req[slot].rid
         /\ LET got == afterGenerate(sessions, DateNow(started), req[slot], out)
            IN  /\ sessions' = got.sessions
                /\ req' = [req EXCEPT ![slot] = got.req]
                /\ evt' = got.evt
    /\ prev' = summary(evt)
    /\ responses' = respond(responses, evt')
    /\ UNCHANGED <<VECTORS, TOP_K, indexFile, uuidN, started, indexer>>

\* The generation call of a suspended handler comes back.
GenReturn(outcomes) ==
    /\ \E slot \in Slots, out \in outcomes :
         /\ req[slot].pc = "gen"
         /\ LET got == afterGenerate(sessions, DateNow(started), req[slot], out)
            IN  /\ sessions' = got.sessions
                /\ req' = [req EXCEPT ![slot] = got.req]
                /\ evt' = got.evt
    /\ prev' = summary(evt)
    /\ responses' = respond(responses, evt')
    /\ UNCHANGED <<VECTORS, TOP_K, indexFile, uuidN, started, indexer>>

Next ==
    \/ WriteIndexFile
    \/ Health
    \/ Reset(MainCreds, MaxRequests)
    \/ SessionInfo(MainCreds, MaxRequests)
    \/ AskStart(MainCreds, MainBodies, MaxRequests)
    \/ EmbedReturn(MainEmbedOutcomes)
    \/ GenReturn(MainGenOutcomes)

Spec == Init /\ [][Next]_vars

(***************************************************************************)
(* The session specification: the middleware of the three routes under     *)
(* every combination of header, body field and cookie, on a server whose   *)
(* index loaded.                                                           *)
(***************************************************************************)

InitSession ==
    /\ sessions = <<>>
    /\ indexFile = FileOf(IndexA)
    /\ VECTORS = loadVectors(indexFile)
    /\ TOP_K = MaxTopK
    /\ uuidN = 0
    /\ started = 0
    /\ req = [s \in Slots |-> Idle]
    /\ evt = NoEvt
    /\ prev = summary(NoEvt)
    /\ responses = <<>>
    /\ indexer = IndexerOff

SessionBodies == {[question |-> Text(T("thanks")), message |-> Absent]}

NextSession ==
    \/ Reset(SessionCreds(uuidN), MaxRequests)
    \/ SessionInfo(SessionCreds(uuidN), MaxRequests)
    \/ AskStart(SessionCreds(uuidN), SessionBodies, MaxRequests)

SpecSession == InitSession /\ [][NextSession]_vars

(***************************************************************************)
(* The reset specification: asks, resets and session queries on one        *)
(* session, one request more than the main specification takes.            *)
(***************************************************************************)

ResetBodies ==
    { [question |-> Text(T("thanks")), message |-> Absent],
      [question |-> Text(T("price list")), message |-> Absent] }

NextReset ==
    \/ Reset(KnownCreds, MaxRequests + 1)
    \/ SessionInfo(KnownCreds, MaxRequests + 1)
    \/ AskStart(KnownCreds, ResetBodies, MaxRequests + 1)
    \/ EmbedReturn(MainEmbedOutcomes)
    \/ GenReturn(MainGenOutcomes)

SpecReset == Init /\ [][NextReset]_vars

(***************************************************************************)
(* The serial specification: the requests of one session one at a time,    *)
(* with backend calls that do not fail.                                    *)
(***************************************************************************)

\* No handler is suspended.
allIdle == \A slot \in Slots : req[slot].pc = "idle"

SerialBodies == ResetBodies \cup {NoBody}

SerialEmbedOutcomes == {Embedding(<<1, 0>>), Embedding(<<1, 0 - 6>>)}
SerialGenOutcomes == {Generated("g1"), Generated("g2")}

NextSerial ==
    \/ allIdle /\ Reset(KnownCreds, MaxRequests + 2)
    \/ allIdle /\ SessionInfo(KnownCreds, MaxRequests + 2)
    \/ allIdle /\ AskStart(KnownCreds, SerialBodies, MaxRequests + 2)
    \/ EmbedReturn(SerialEmbedOutcomes)
    \/ GenReturn(SerialGenOutcomes)

SpecSerial == Init /\ [][NextSerial]_vars

(***************************************************************************)
(* The retrieval specification: one ask against every index, TOP_K and     *)
(* query embedding of the bounds.                                          *)
(***************************************************************************)

InitRetrieve ==
    /\ sessions = <<>>
    /\ indexFile \in {FileOf(ix) : ix \in RetrieveIndexes}
    /\ VECTORS = loadVectors(indexFile)
    /\ TOP_K \in 0..MaxTopK
    /\ uuidN = 0
    /\ started = 0
    /\ req = [s \in Slots |-> Idle]
    /\ evt = NoEvt
    /\ prev = summary(NoEvt)
    /\ responses = <<>>
    /\ indexer = IndexerOff

NextRetrieve ==
    \/ AskStart({NoCred}, RetrieveBodies, 1)
    \/ EmbedReturn(RetrieveOutcomes)
    \/ GenReturn({Generated("g1")})

SpecRetrieve == InitRetrieve /\ [][NextRetrieve]_vars

(***************************************************************************)
(* The routing specification: one ask for every text of the bounds.        *)
(***************************************************************************)

NextRoute == AskStart({NoCred}, RouteBodies, 1)

SpecRoute == Init /\ [][NextRoute]_vars

(***************************************************************************)
(* The indexer's steps                                                     *)
(***************************************************************************)

serverVars == <<sessions, VECTORS, TOP_K, uuidN, started, req, evt, prev, responses>>

\* What PDF_PATH holds: no file, an empty file, or a PDF with this text.
PdfMissing == [exists |-> FALSE, bytes |-> 0, text |-> <<>>]
PdfEmpty == [exists |-> TRUE, bytes |-> 0, text |-> <<>>]
PdfOf(text) == [exists |-> TRUE, bytes |-> Len(text) + 1, text |-> text]

Pdfs ==
    { PdfMissing, PdfEmpty, PdfOf(<<>>),
      PdfOf(T("a b")),
      PdfOf(<<" ", "a", "b", "\r", "\n", "\n", "\n", "b", "a", " ">>),
      PdfOf(T("ab  a")) }

\* CHUNK_SIZE and CHUNK_OVERLAP of the environment.
ChunkSettings ==
    {cfg \in [size : 1..MaxSize, overlap : (0 - 1)..(MaxSize - 1)] : cfg.overlap < cfg.size}

IndexerSettings == {cfg \in ChunkSettings : cfg.overlap >= 0}

ChunkAlphabet == {"a", "b", " "}

ChunkTexts == UNION {[1..n -> ChunkAlphabet] : n \in 0..MaxText}

IndexerOutcomes == {Failure(0), Embedding(<<1, 0>>)}

\* main(), to the call of chunkText: a missing or empty PDF ends the run.
IndexerStart(pdfs, settings) ==
    /\ indexer.pc = "off"
    /\ \E pdf \in pdfs, cfg \in settings :
        indexer' =
            IF ~pdf.exists \/ pdf.bytes = 0
            THEN [indexer EXCEPT !.pc = "failed", !.before = indexFile]
            ELSE chunkTextEntry(normalise(pdf.text), cfg.size, cfg.overlap, indexFile)
    /\ UNCHANGED <<serverVars, indexFile>>

\* An iteration of chunkText.
ChunkStep ==
    /\ indexer.pc = "chunk"
    /\ indexer' = chunkTextStep(indexer)
    /\ UNCHANGED <<serverVars, indexFile>>

\* The batch loop with a save of the vectors embedded so far when a batch
\* call rejects.
EmbedBatchSavingPartial(outcomes) ==
    /\ indexer.pc = "embed"
    /\ indexer.i < Len(indexer.chunks)
    /\ \E out \in outcomes :
        IF out.ok
        THEN /\ indexer' = [indexer EXCEPT
                    !.calls = @ + 1,
                    !.vectors = @ \o batchVectors(indexer.chunks, indexer.i, out.values),
                    !.i = @ + batchSize]
             /\ UNCHANGED indexFile
        ELSE /\ indexer' = [indexer EXCEPT !.calls = @ + 1, !.pc = "failed"]
             /\ indexFile' = FileOf(indexer.vectors)
    /\ UNCHANGED serverVars

\* An iteration of the batch loop of main(): batchEmbedContents returns the
\* embeddings of the batch, or rejects and main().catch ends the process.
EmbedBatch(outcomes) ==
    /\ indexer.pc = "embed"
    /\ indexer.i < Len(indexer.chunks)
    /\ \E out \in outcomes :
        indexer' =
            IF out.ok
            THEN [indexer EXCEPT
                    !.calls = @ + 1,
                    !.vectors = @ \o batchVectors(indexer.chunks, indexer.i, out.values),
                    !.i = @ + batchSize]
            ELSE [indexer EXCEPT !.calls = @ + 1, !.pc = "failed"]
    /\ UNCHANGED <<serverVars, indexFile>>

\* fs.writeFileSync(OUT_PATH, ...), after the batch loop.
WriteIndex ==
    /\ indexer.pc = "embed"
    /\ ~(indexer.i < Len(indexer.chunks))
    /\ indexFile' = FileOf(indexer.vectors)
    /\ indexer' = [indexer EXCEPT !.pc = "done"]
    /\ UNCHANGED serverVars

(***************************************************************************)
(* The chunking specification: chunkText on every text and setting of the  *)
(* bounds.                                                                 *)
(***************************************************************************)

InitChunk ==
    /\ sessions = <<>>
    /\ indexFile = FileMissing
    /\ VECTORS = loadVectors(indexFile)
    /\ TOP_K = MaxTopK
    /\ uuidN = 0
    /\ started = 0
    /\ req = [s \in Slots |-> Idle]
    /\ evt = NoEvt
    /\ prev = summary(NoEvt)
    /\ responses = <<>>
    /\ indexer \in {chunkTextEntry(text, cfg.size, cfg.overlap, indexFile) :
                        text \in ChunkTexts, cfg \in ChunkSettings}

NextChunk == ChunkStep

SpecChunk == InitChunk /\ [][NextChunk]_vars

\* The loop of chunkText runs on: an iteration that can be taken is taken.
SpecChunkFair == SpecChunk /\ WF_vars(ChunkStep)

(***************************************************************************)
(* The indexing specification: a run of main() over every PDF, setting     *)
(* and outcome of the batch calls.                                         *)
(***************************************************************************)

NextIndexer ==
    \/ IndexerStart(Pdfs, IndexerSettings)
    \/ ChunkStep
    \/ EmbedBatch(IndexerOutcomes)
    \/ WriteIndex

SpecIndexer == Init /\ [][NextIndexer]_vars

(***************************************************************************)
(* The liveness specification: requests of two clients, with backend calls *)
(* that fail, return, or never return.  A call that is pending and has not *)
(* been lost returns in the end.                                           *)
(***************************************************************************)

\* The backend call a handler awaits never returns: no timeout bounds the
\* awaits of lines 320 and 380.
Hang ==
    /\ \E slot \in Slots :
         /\ req[slot].pc \in {"embed", "gen"}
         /\ req' = [req EXCEPT ![slot].pc = "hung"]
    /\ UNCHANGED <<sessions, VECTORS, TOP_K, indexFile, uuidN, started, evt, prev,
                   indexer, responses>>

LiveBodies ==
    { [question |-> Text(T("thanks")), message |-> Absent],
      [question |-> Text(T("price list")), message |-> Absent] }

NextLive ==
    \/ Health
    \/ Reset(MainCreds, MaxRequests)
    \/ SessionInfo(MainCreds, MaxRequests)
    \/ AskStart(MainCreds, LiveBodies, MaxRequests)
    \/ EmbedReturn(MainEmbedOutcomes)
    \/ GenReturn(MainGenOutcomes)
    \/ Hang

SpecLive ==
    /\ Init
    /\ [][NextLive]_vars
    /\ WF_vars(EmbedReturn(MainEmbedOutcomes))
    /\ WF_vars(GenReturn(MainGenOutcomes))


(***************************************************************************)
(* The cleaning specification: a run of the indexer whose text is one      *)
(* chunk, for every text of at most MaxWords words of CleanWords.          *)
(***************************************************************************)

MaxWords == 3

\* Words with capitals, punctuation and Devanagari, stopwords of the three
\* lists, and protected tokens.
CleanWords ==
    { T("the"), T("Highlead,"), T("HCA-269"), T("isn't"), T("kya"), T("price?"),
      <<"DEVA_KA", "DEVA_AA">>, <<"DEVA_MA", "DEVA_NA">> }

CleanSeparators == {<<" ">>, <<",", " ">>}

RECURSIVE CleanTextsOf(_)
CleanTextsOf(n) ==
    IF n = 0 THEN {<<>>}
    ELSE IF n = 1 THEN CleanWords
    ELSE {s \o sep \o w : s \in CleanTextsOf(n - 1), sep \in CleanSeparators, w \in CleanWords}

CleanTexts == UNION {CleanTextsOf(n) : n \in 0..MaxWords}

InitClean ==
    /\ sessions = <<>>
    /\ indexFile = FileMissing
    /\ VECTORS = loadVectors(indexFile)
    /\ TOP_K = MaxTopK
    /\ uuidN = 0
    /\ started = 0
    /\ req = [s \in Slots |-> Idle]
    /\ evt = NoEvt
    /\ prev = summary(NoEvt)
    /\ responses = <<>>
    /\ indexer \in {chunkTextEntry(text, Len(text) + 1, 0, indexFile) : text \in CleanTexts}

NextClean ==
    \/ ChunkStep
    \/ EmbedBatch({Embedding(<<1, 0>>)})
    \/ WriteIndex

SpecClean == InitClean /\ [][NextClean]_vars




(***************************************************************************)
(* Properties                                                              *)
(***************************************************************************)

\* The history of the session the last step worked on.
historyNow == IF evt.sid \in DOMAIN sessions THEN sessions[evt.sid].history ELSE <<>>

\* The turns of request rid in a history.
turnsOf(history, rid) == SelectSeq(history, LAMBDA turn : turn.rid = rid)

\* C1: when the embedding call or the generation call of an ask fails, the
\* ask answers with an error and the history of its session holds neither
\* the user turn nor an assistant turn of the failed request.
FailedAskLeavesNoTurn ==
    evt.backendFailed =>
        /\ evt.responded /\ evt.error
        /\ turnsOf(historyNow, evt.rid) = <<>>

\* The case in which C1 fails: the generation call has failed and the
\* history still holds the user turn of that request, and nothing after it.
FailedGenerationKeepsUserTurn ==
    /\ evt.step = "genReturn" /\ evt.backendFailed /\ evt.error
    /\ Len(turnsOf(historyNow, evt.rid)) = 1
    /\ turnsOf(historyNow, evt.rid)[1].role = "user"
    /\ turnsOf(historyNow, evt.rid)[1].content = evt.q

\* C2: after reset(id) on a session that exists, whatever its history,
\* sessionInfo(id) reports historyLength 0, the same sessionId and the
\* createdAt the session had before the reset.
ResetKeepsIdentity ==
    ( /\ evt.step = "session" /\ prev.step = "reset"
      /\ ~mustMint(suppliedSid(evt.cred))
      /\ suppliedSid(evt.cred) = prev.sid
      /\ prev.preCreatedAt >= 0 ) =>
        /\ evt.historyLength = 0
        /\ evt.sid = prev.sid
        /\ evt.createdAt = prev.preCreatedAt

\* sessionInfo(id) has answered right after reset(id) cleared a history that
\* held turns.
ResetThenInfoOnUsedSession ==
    /\ evt.step = "session" /\ prev.step = "reset"
    /\ suppliedSid(evt.cred) = SidA /\ prev.sid = SidA
    /\ prev.preLen >= 2
    /\ evt.historyLength = 0
    /\ evt.createdAt = prev.preCreatedAt /\ evt.createdAt < evt.lastSeen

\* An ask the handler short-circuits: it carries a question, and the
\* ultra-short guard or a small-talk pattern takes it.
shortCircuited(body) ==
    /\ questionOf(body) # <<>>
    /\ analysis(body).short \/ analysis(body).kind # "null"

\* C3: every short-circuited ask appends exactly two turns to the history of
\* its session, the user's utterance then the canned reply, answers with an
\* empty citation list and makes no embedding call and no generation call.
ShortCircuitAppendsTwoTurns ==
    (evt.step = "ask" /\ shortCircuited(evt.body)) =>
        LET old == evt.pre.history
            n == Len(old)
        IN  /\ evt.responded /\ ~evt.error
            /\ Len(historyNow) = n + 2
            /\ SubSeq(historyNow, 1, n) = old
            /\ historyNow[n + 1].role = "user"
            /\ historyNow[n + 1].content = trim(questionOf(evt.body))
            /\ historyNow[n + 2].role = "assistant"
            /\ historyNow[n + 2].content = evt.answer
            /\ evt.answer \in makeSmallTalkReply(replyKind(analysis(evt.body)), evt.mode)
            /\ evt.citations = <<>>
            /\ evt.embedCalls = 0 /\ evt.genCalls = 0
            /\ \A slot \in Slots : req[slot].rid # evt.rid

\* A thanks is short-circuited on a session that already holds turns.
SmallTalkOnUsedSession ==
    /\ evt.step = "ask" /\ evt.route = "smalltalk"
    /\ analysis(evt.body).kind = "thanks"
    /\ Len(evt.pre.history) >= 1
    /\ Len(historyNow) = Len(evt.pre.history) + 2
    /\ evt.citations = <<>>


\* The score of every chunk of the loaded index against the query embedding
\* of the last step.
scoresOfIndex == [i \in 1..Len(VECTORS) |-> cosineSim(evt.qVec, VECTORS[i].embedding)]

\* The last step retrieved: an embedding call came back with an embedding.
retrieved == evt.step = "embedReturn" /\ ~evt.backendFailed

\* The top score of the result is below the minimum, 0.18: with the score
\* num / sqrt(den2), num <= 0 or (100 num)^2 < 18^2 den2.
topBelowMinimum ==
    LET top == evt.scored[1].score
    IN  top.num <= 0 \/ 10000 * top.num * top.num < 324 * Den2(top)

\* C4: for every index and query embedding, retrieval returns at most k
\* results, in non-increasing score order, which are the k highest-scoring
\* chunks of the whole index, and the request is gated whenever the result
\* is empty or its top score is below the minimum.
RetrievalTopK ==
    retrieved =>
        LET scored == evt.scored
            ids == {scored[i].id : i \in 1..Len(scored)}
        IN  /\ Len(scored) <= TOP_K
            /\ Len(scored) = Min(TOP_K, Len(VECTORS))
            /\ Cardinality(ids) = Len(scored)
            /\ \A i \in 1..Len(scored) :
                 \E j \in 1..Len(VECTORS) :
                   /\ VECTORS[j].id = scored[i].id
                   /\ scored[i].score = scoresOfIndex[j]
            /\ \A i \in 1..(Len(scored) - 1) :
                 ~scoreLess(scored[i].score, scored[i + 1].score)
            /\ \A j \in 1..Len(VECTORS) :
                 VECTORS[j].id \notin ids =>
                   \A i \in 1..Len(scored) : ~scoreLess(scored[i].score, scoresOfIndex[j])
            /\ (Len(scored) = 0 \/ topBelowMinimum) => evt.route = "gated"

\* A retrieval that had to choose: the index holds more chunks than TOP_K,
\* the result is full, a chunk left out scores strictly less than the last
\* result, and the top score passes the minimum.
RetrievalDropsLowest ==
    /\ retrieved /\ TOP_K >= 2 /\ Len(VECTORS) > TOP_K
    /\ Len(evt.scored) = TOP_K
    /\ scoreLess(evt.scored[TOP_K].score, evt.scored[1].score)
    /\ \E j \in 1..Len(VECTORS) : scoreLess(scoresOfIndex[j], evt.scored[TOP_K].score)
    /\ VECTORS[1].id # evt.scored[1].id
    /\ evt.route = "rag"

\* The last step gated its request, as the result it kept shows.
gatedStep == retrieved /\ (Len(evt.scored) = 0 \/ topBelowMinimum)

\* C5: when an ask is gated (no results or top score below the minimum), no
\* generation call is made, the fixed no-relevant-context message is
\* returned with an empty citation list, and the user turn and that message
\* are both appended to the session history.
GatedAskAnswersTip ==
    gatedStep =>
        LET old == evt.pre.history
            n == Len(old)
        IN  /\ evt.responded /\ ~evt.error
            /\ evt.genCalls = 0
            /\ \A slot \in Slots : req[slot].rid # evt.rid
            /\ evt.answer = tipMessage(evt.mode)
            /\ evt.citations = <<>>
            /\ Len(historyNow) = n + 2
            /\ SubSeq(historyNow, 1, n) = old
            /\ historyNow[n + 1].role = "user" /\ historyNow[n + 1].content = evt.q
            /\ historyNow[n + 2].role = "assistant"
            /\ historyNow[n + 2].content = tipMessage(evt.mode)

\* An ask on a session that holds turns is gated on a non-empty result whose
\* top score is positive and below the minimum.
GatedOnLowScore ==
    /\ gatedStep
    /\ Len(evt.scored) >= 1 /\ evt.scored[1].score.num > 0
    /\ evt.answer = tipMessage(evt.mode)
    /\ Len(evt.pre.history) >= 1
    /\ Len(historyNow) = Len(evt.pre.history) + 2


\* What an ask with a question text gets from a server that holds no index:
\* a canned reply when it is short-circuited, else the embeddings-not-loaded
\* fallback and no backend call, with both turns appended.
servedWithoutIndex ==
    (evt.step = "ask" /\ questionOf(evt.body) # <<>>) =>
        /\ evt.responded
        /\ evt.embedCalls = 0 /\ evt.genCalls = 0
        /\ \A slot \in Slots : req[slot].pc = "idle"
        /\ evt.citations = <<>>
        /\ Len(historyNow) = Len(evt.pre.history) + 2
        /\ historyNow[Len(historyNow)].content = evt.answer
        /\ IF shortCircuited(evt.body)
           THEN evt.answer \in makeSmallTalkReply(replyKind(analysis(evt.body)), evt.mode)
           ELSE evt.answer = fallbackMessage(evt.mode)

\* C6: when the index was missing, unreadable or empty at load time, the
\* server holds no index in every later state, also after an index file is
\* written, and in every later state an ask with a question text that is not
\* short-circuited gets the embeddings-not-loaded fallback without an
\* embedding or generation call, while a short-circuited ask gets its canned
\* reply.
DegradedModeIsPermanent ==
    (indexFile \in {FileMissing, FileNotJson, FileNoVectors}) =>
        [](VECTORS = <<>> /\ servedWithoutIndex)

\* The second request of a server that started without an index is an ask
\* for retrieval, sent after an index file was written: it gets the fallback.
FallbackAfterIndexWritten ==
    /\ VECTORS = <<>> /\ indexFile = FileOf(IndexA)
    /\ evt.step = "ask" /\ evt.rid = 2
    /\ ~shortCircuited(evt.body) /\ questionOf(evt.body) # <<>>
    /\ evt.answer = fallbackMessage(evt.mode)
    /\ evt.embedCalls = 0 /\ evt.genCalls = 0

\* The request carries no question text: its question is the empty string,
\* or it has no question and its message is absent or the empty string.
noQuestionText(body) ==
    IF body.question.def THEN body.question.s = <<>>
    ELSE ~body.message.def \/ body.message.s = <<>>

\* C7: an ask that carries no question text is answered with a client error,
\* makes no embedding or generation call and leaves the history of its
\* session unchanged.
MissingQuestionIsClientError ==
    (evt.step = "ask" /\ noQuestionText(evt.body)) =>
        /\ evt.responded /\ evt.error
        /\ evt.status >= 400 /\ evt.status < 500
        /\ evt.embedCalls = 0 /\ evt.genCalls = 0
        /\ \A slot \in Slots : req[slot].rid # evt.rid
        /\ historyNow = evt.pre.history

\* An ask whose question is the empty string, beside a message, is refused
\* on a session that holds turns.
EmptyQuestionRefused ==
    /\ evt.step = "ask"
    /\ evt.body.question.def /\ evt.body.question.s = <<>> /\ evt.body.message.def
    /\ evt.status = 400
    /\ Len(evt.pre.history) >= 2
    /\ historyNow = evt.pre.history


\* The last step ran the session middleware.
throughMiddleware == evt.step \in {"ask", "reset", "session"}

\* A source is present when it holds a value other than the empty string.
present(v) == v # Undefined /\ v # EmptyString

\* The value of the first source that is present, in the order header,
\* payload field, cookie; the value of the cookie when none is.
firstPresent(cred) ==
    IF present(cred.h) THEN cred.h ELSE IF present(cred.b) THEN cred.b ELSE cred.c

\* The value of the first source, in the same order, whose value is truthy;
\* the value of the cookie when none is.
firstTruthy(cred) ==
    IF Truthy(cred.h) THEN cred.h ELSE IF Truthy(cred.b) THEN cred.b ELSE cred.c

\* The request used the identifier v as it came and set no cookie.
usedUnchanged(v) == evt.sid = v /\ evt.cookie = Undefined

\* The request minted the latest identifier, which no session held, and set
\* it as the cookie.
mintedFresh == evt.sid = uuidv4(uuidN) /\ uuidN >= 1 /\ evt.cookie = evt.sid /\ ~evt.pre.exists

\* C8 as stated: the identifier is that of the first source that is
\* present, in the order header, payload field, cookie; it is used unchanged,
\* with no cookie set, when it is a string of at most 200 characters, and a
\* fresh identifier is minted and set as the cookie when none is present or
\* the value is not a string or is longer.
SessionIdFromFirstPresent ==
    throughMiddleware =>
        LET v == firstPresent(evt.cred)
        IN  IF present(v) /\ v.t = "string" /\ v.len <= 200
            THEN usedUnchanged(v)
            ELSE mintedFresh

\* C8, amended: the identifier is that of the first source whose value is
\* truthy (an empty string or a 0 gives way to the next source); it is used
\* unchanged, with no cookie set, when it is a string of at most 200
\* characters, and a fresh identifier is minted and set as the cookie
\* otherwise; either way the session of the identifier exists afterwards.
SessionIdFromFirstTruthy ==
    throughMiddleware =>
        LET v == firstTruthy(evt.cred)
        IN  /\ evt.sid \in DOMAIN sessions
            /\ IF Truthy(v) /\ v.t = "string" /\ v.len <= 200
               THEN usedUnchanged(v)
               ELSE mintedFresh

\* A request whose payload field is the number 0 presents the cookie an
\* earlier request was given: the session of the cookie is used, and no
\* identifier is minted.
ZeroFieldFallsBackToCookie ==
    /\ throughMiddleware
    /\ evt.cred.h = Undefined /\ evt.cred.b = Num(0) /\ evt.cred.c = uuidv4(1)
    /\ usedUnchanged(uuidv4(1))
    /\ evt.pre.exists /\ uuidN = 1

\* C9: asks on one session do not exclude one another.  Whenever two asks
\* of a session are both suspended on their generation call, either call may
\* come back first; an ask that passes the gate appends its user turn behind
\* whatever the history holds then, and an answered ask appends its
\* assistant turn behind whatever the history holds then.
ConcurrentAsksInterleave ==
    /\ \A a, b \in Slots :
         (a # b /\ req[a].pc = "gen" /\ req[b].pc = "gen" /\ req[a].sid = req[b].sid) =>
             ENABLED (GenReturn(MainGenOutcomes) /\ req'[a].pc = "idle" /\ req'[b].pc = "gen")
    /\ (evt.step = "embedReturn" /\ evt.route = "rag") =>
           /\ Len(historyNow) = Len(evt.pre.history) + 1
           /\ SubSeq(historyNow, 1, Len(evt.pre.history)) = evt.pre.history
           /\ historyNow[Len(historyNow)].role = "user"
           /\ historyNow[Len(historyNow)].rid = evt.rid
    /\ (evt.step = "genReturn" /\ evt.route = "answered") =>
           /\ Len(historyNow) = Len(evt.pre.history) + 1
           /\ SubSeq(historyNow, 1, Len(evt.pre.history)) = evt.pre.history
           /\ historyNow[Len(historyNow)].role = "assistant"
           /\ historyNow[Len(historyNow)].rid = evt.rid

\* The history of a session reads: user turn of request 1, user turn of
\* request 2, assistant turn of request 2, assistant turn of request 1.
RepliesInReverseOrder ==
    /\ evt.step = "genReturn" /\ evt.rid = 1
    /\ Len(historyNow) = 4
    /\ historyNow[1].role = "user" /\ historyNow[1].rid = 1
    /\ historyNow[2].role = "user" /\ historyNow[2].rid = 2
    /\ historyNow[3].role = "assistant" /\ historyNow[3].rid = 2
    /\ historyNow[4].role = "assistant" /\ historyNow[4].rid = 1

\* The letters and digits of a text.
alphanumerics(q) ==
    SelectSeq(q, LAMBDA c : c \in Range(LowerLetters) \cup Range(UpperLetters) \cup Range(Digits))

\* C10: an input with at most 3 letters and digits is answered as a
\* greeting, from the greeting bank, also when it matches the pattern of
\* another intent.
UltraShortIsGreeting ==
    ( /\ evt.step = "ask" /\ questionOf(evt.body) # <<>>
      /\ Len(alphanumerics(trim(questionOf(evt.body)))) <= 3 ) =>
        /\ evt.responded /\ evt.status = 200
        /\ evt.answer \in makeSmallTalkReply("hello", evt.mode)
        /\ evt.answer[3] = "hello"
        /\ evt.embedCalls = 0 /\ evt.genCalls = 0

\* The farewell "bye" matches the farewell pattern and is answered as a
\* greeting.
FarewellAnsweredAsGreeting ==
    /\ evt.step = "ask" /\ evt.q = T("bye")
    /\ smallTalkMatch(evt.q) = "bye"
    /\ evt.answer[3] = "hello"
    /\ evt.route = "ultrashort"


\* The letters and digits of a text, in Latin or in Devanagari script.
lettersAndDigits(q) ==
    SelectSeq(q, LAMBDA c : c \in Range(LowerLetters) \cup Range(UpperLetters)
                                  \cup Range(Digits) \cup Devanagari)

\* The answer of the last step is a reply of the greeting bank.
answeredAsGreeting == evt.responded /\ evt.answer \in makeSmallTalkReply("hello", evt.mode)

\* C11: an input with more than 3 letters or digits, in Latin or in
\* Devanagari script, is never forced to greeting by the ultra-short guard:
\* it goes on to pattern matching and retrieval, and is answered as a
\* greeting only when the greeting pattern matches it.
LongInputPassesGuard ==
    ( /\ evt.step = "ask" /\ questionOf(evt.body) # <<>>
      /\ Len(lettersAndDigits(trim(questionOf(evt.body)))) > 3 ) =>
        /\ evt.route \in {"smalltalk", "noindex", "rag"}
        /\ answeredAsGreeting => analysis(evt.body).kind = "hello"

\* The case in which C11 fails: a question of five Devanagari letters, which
\* matches no pattern, is answered as a greeting by the guard.
HindiQuestionForcedToGreeting ==
    /\ evt.step = "ask"
    /\ evt.q = <<"DEVA_KA", "DEVA_MA", "DEVA_NA", "DEVA_YA", "DEVA_HA">>
    /\ analysis(evt.body).kind = "null"
    /\ answeredAsGreeting
    /\ evt.embedCalls = 0

\* The Latin half of C11, which holds: an input with more than 3 Latin
\* letters or digits is not taken by the guard.
LongLatinInputPassesGuard ==
    ( /\ evt.step = "ask" /\ questionOf(evt.body) # <<>>
      /\ Len(alphanumerics(trim(questionOf(evt.body)))) > 3 ) =>
        /\ evt.route \in {"smalltalk", "noindex", "rag"}
        /\ answeredAsGreeting => analysis(evt.body).kind = "hello"


\* The kind of the first pattern of the table, in its order, that matches at
\* the start of the text; "null" when none does.
firstAnchoredMatch(t) ==
    LET hits == {i \in DOMAIN patterns : testAnchored(patterns[i].re, t)}
    IN  IF hits = {} THEN "null"
        ELSE patterns[CHOOSE i \in hits : \A j \in hits : i <= j].kind

\* C12: for an input that passes the ultra-short guard the intent is the
\* first pattern, in the order greeting, time-of-day greeting,
\* acknowledgment, thanks, farewell, help, that matches at the start of the
\* input, and the input is answered from the bank of that intent; when no
\* pattern matches at the start the request goes to retrieval.
IntentIsFirstAnchoredMatch ==
    ( /\ evt.step = "ask" /\ questionOf(evt.body) # <<>>
      /\ Len(alphanumerics(trim(questionOf(evt.body)))) > 3 ) =>
        LET kind == firstAnchoredMatch(trim(questionOf(evt.body)))
        IN  IF kind = "null"
            THEN evt.route \in {"noindex", "rag"}
            ELSE /\ evt.route = "smalltalk"
                 /\ evt.answer \in makeSmallTalkReply(kind, evt.mode)

\* The case in which C12 fails: "need help" matches no pattern at its start,
\* and is answered from the help bank without retrieval.
HelpMatchedInsideInput ==
    /\ evt.step = "ask" /\ evt.q = T("need help")
    /\ firstAnchoredMatch(evt.q) = "null"
    /\ evt.responded /\ evt.route = "smalltalk"
    /\ evt.answer \in makeSmallTalkReply("help", evt.mode)
    /\ evt.embedCalls = 0

\* chunkText has returned and main() has not gone on yet.
chunked == indexer.pc = "embed" /\ indexer.i = 0 /\ indexer.calls = 0

\* The positions of the text, counted from 1, that a window spans.
windowSpan(w) == (w.start + 1)..w.end

\* The positions of the text that the chunk made of a window holds: the
\* window without the whitespace trimmed from its two ends.
chunkSpan(text, w) ==
    LET cut == SubSeq(text, w.start + 1, w.end)
        lead == Len(cut) - Len(trimStart(cut))
    IN  (w.start + lead + 1)..(w.start + lead + Len(w.chunk))

positionsInWindows == UNION {windowSpan(indexer.windows[k]) : k \in DOMAIN indexer.windows}

positionsInChunks ==
    UNION {chunkSpan(indexer.text, indexer.windows[k]) : k \in DOMAIN indexer.windows}

chunksWithinSize == \A k \in DOMAIN indexer.chunks : Len(indexer.chunks[k]) <= indexer.size

\* C13, as stated: for overlap < chunkSize the spans of the emitted chunks,
\* put together, are the whole text, and no chunk is longer than chunkSize.
ChunksReconstructText ==
    (chunked /\ indexer.overlap < indexer.size)
        => /\ positionsInChunks = 1..Len(indexer.text)
           /\ chunksWithinSize

\* C13, amended: for 0 <= overlap < chunkSize the windows cover the whole
\* text, every character outside whitespace lies in an emitted chunk (a chunk
\* is its window trimmed, and a window of whitespace emits none), and no chunk
\* is longer than chunkSize.
ChunksCoverAllButWhitespace ==
    (chunked /\ 0 <= indexer.overlap /\ indexer.overlap < indexer.size)
        => /\ positionsInWindows = 1..Len(indexer.text)
           /\ \A p \in 1..Len(indexer.text) :
                indexer.text[p] \notin Whitespace => p \in positionsInChunks
           /\ indexer.chunks =
                SelectSeq([k \in DOMAIN indexer.windows |-> indexer.windows[k].chunk],
                          LAMBDA c : c # <<>>)
           /\ chunksWithinSize

\* C13, witness: a text cut into at least two chunks, one of them trimmed, so
\* that a character of the text is in no chunk.
ChunkTrimmedAtWindowEdge ==
    /\ chunked
    /\ 0 <= indexer.overlap /\ indexer.overlap < indexer.size
    /\ Len(indexer.chunks) >= 2
    /\ positionsInChunks # 1..Len(indexer.text)

\* The tokens of a text as the cleaner reads them: lower case, every character
\* outside a-z, 0-9, Devanagari and whitespace a separator.
tokensIn(x) == Range(splitWs(stripAll(toLowerCase(x)), 1, <<>>))

protectedIn(x) == tokensIn(x) \cap PROTECTED_TOKENS

stopwordsIn(x) == tokensIn(x) \cap (EN_STOPWORDS \cup HINGLISH_STOPWORDS \cup HINDI_STOPWORDS)

\* C14: cleaning a cleaned text changes nothing, and every protected token of
\* a text is a token of its cleaned text; a protected token passes the filter
\* whatever the stopword lists hold.
CleanIdempotentKeepsProtected ==
    /\ \A k \in DOMAIN indexer.vectors :
        LET x == indexer.vectors[k].text_original
            c == indexer.vectors[k].text_cleaned
        IN  /\ cleanForEmbedding(c) = c
            /\ protectedIn(x) \subseteq tokensIn(c)
    /\ indexer.pc = "done" => \A t \in PROTECTED_TOKENS : keepToken(t)

\* C14, witness: a cleaned chunk that lost a stopword and punctuation and kept
\* its protected tokens.
ProtectedTokenKeptBesideStopword ==
    \E k \in DOMAIN indexer.vectors :
        LET x == indexer.vectors[k].text_original
            c == indexer.vectors[k].text_cleaned
        IN  /\ Cardinality(protectedIn(x)) >= 2
            /\ stopwordsIn(x) # {}
            /\ c # x
            /\ stopwordsIn(c) = {}

\* The words of a lower-cased text: its maximal runs without whitespace.
standaloneTokens(text) == Range(splitWs(text, 1, <<>>))

\* The words of a lower-cased text when only the space separates words.
RECURSIVE spaceTokens(_, _, _)
spaceTokens(s, i, cur) ==
    IF i > Len(s) THEN {cur}
    ELSE IF s[i] = " " THEN {cur} \cup spaceTokens(s, i + 1, <<>>)
    ELSE spaceTokens(s, i + 1, Append(cur, s[i]))

hasDevanagari(text) == \E i \in DOMAIN text : text[i] \in Devanagari \cup DevanagariSigns

\* The mode of a text whose marker words are those of the set tokens: twice
\* the score is 2 for each marker word in it and 1 more with a chat cue.
modeOfTokens(text, tokens) ==
    IF hasDevanagari(text) THEN "hinglish"
    ELSE IF 2 * Cardinality(Range(hinglishTokens) \cap tokens)
                + (IF hasChatCue(text) THEN 1 ELSE 0) >= 4
         THEN "hinglish" ELSE "english"

askedText == evt.step = "ask" /\ evt.q # <<>>

\* C15: the mode of a question is hinglish when it holds a Devanagari
\* character; otherwise it is hinglish exactly when the marker words that stand
\* between whitespace or the ends of the lower-cased text, each counted once,
\* and half a point for a chat cue, make a score of at least 2.
ModeFromStandaloneMarkers ==
    askedText =>
        evt.mode = modeOfTokens(toLowerCase(evt.q), standaloneTokens(toLowerCase(evt.q)))

\* C15, witness: two marker words on two lines, and the mode is english.
MarkersOnTwoLinesEnglish ==
    /\ askedText
    /\ "\n" \in Range(evt.q)
    /\ ~hasDevanagari(evt.q)
    /\ Cardinality(Range(hinglishTokens) \cap standaloneTokens(toLowerCase(evt.q))) >= 2
    /\ evt.mode = "english"

\* With the space as the only separator of words the mode is as C15 says.
ModeFromSpaceBoundedMarkers ==
    askedText =>
        evt.mode = modeOfTokens(toLowerCase(evt.q), spaceTokens(toLowerCase(evt.q), 1, <<>>))

\* C16: a run of the indexer that a failed batch call ended has left the index
\* file as it was before the run, and the file differs from what it was only
\* after a run that embedded every chunk.
FailedBatchWritesNoIndex ==
    /\ indexer.pc = "failed" => indexFile = indexer.before
    /\ (indexer.pc # "off" /\ indexFile # indexer.before)
        => /\ indexer.pc = "done"
           /\ Len(indexFile.vectors) = Len(indexer.chunks)

\* C16, witness: the second batch call of a run failed after the first one
\* had returned its embeddings, and the index of before the run is on disk.
SecondBatchFailed ==
    /\ indexer.pc = "failed"
    /\ indexer.calls = 2
    /\ Len(indexer.vectors) = batchSize
    /\ indexer.before = FileOf(IndexA)
    /\ indexFile = FileOf(IndexA)

\* An ask has answered with the reply of the generation call.
answered == evt.step = "genReturn" /\ evt.responded /\ evt.route = "answered"

\* C17: an ask answered after generation returns a non-empty citation list
\* numbered 1..n in score order, n the smaller of TOP_K and the size of the
\* index; citation i has the score of the i-th ranked chunk, and context block
\* i of the prompt is numbered i and holds the text of that chunk.
CitationsFollowRanking ==
    answered =>
        LET n == Min(TOP_K, Len(VECTORS))
            ranked == sortDesc(withScores(VECTORS, evt.qVec), Len(VECTORS))
        IN  /\ n >= 1
            /\ Len(evt.citations) = n
            /\ Len(evt.contextBlocks) = n
            /\ \A i \in 1..n :
                /\ evt.citations[i].idx = i
                /\ evt.citations[i].score = ranked[i].score
                /\ evt.citations[i].score = cosineSim(evt.qVec, ranked[i].embedding)
                /\ evt.contextBlocks[i].n = i
                /\ evt.contextBlocks[i].text = ranked[i].text_original
            /\ \A i \in 1..(n - 1) :
                ~scoreLess(evt.citations[i].score, evt.citations[i + 1].score)

\* C17, witness: an answer with two citations of different scores from an
\* index of three chunks, the first block not the first chunk of the index.
TwoCitationsOutOfThree ==
    /\ answered
    /\ Len(VECTORS) = 3
    /\ Len(evt.citations) = 2
    /\ scoreLess(evt.citations[2].score, evt.citations[1].score)
    /\ evt.contextBlocks[1].text # VECTORS[1].text_original

isPrefix(a, b) == Len(a) <= Len(b) /\ SubSeq(b, 1, Len(a)) = a

\* What a step may do to the session records.
recordsStep ==
    /\ \A sid \in DOMAIN sessions :
        /\ sid \in DOMAIN sessions'
        /\ sessions'[sid].createdAt = sessions[sid].createdAt
        /\ \/ isPrefix(sessions[sid].history, sessions'[sid].history)
           \/ /\ sessions'[sid].history = <<>>
              /\ evt'.step = "reset" /\ evt'.sid = sid
    /\ \A sid \in DOMAIN sessions' \ DOMAIN sessions :
        /\ evt'.step \in {"ask", "reset", "session"}
        /\ evt'.sid = sid
        /\ sessions'[sid].createdAt = DateNow(started')
        /\ sessions'[sid].lastSeen = DateNow(started')
        /\ \A k \in DOMAIN sessions'[sid].history : sessions'[sid].history[k].rid = evt'.rid

\* C18: a session record appears in the step of a request (ask, reset or
\* sessionInfo) whose identifier has no record, created at that moment and
\* holding nothing but what that request appends; a record that exists stays,
\* with its createdAt, and its history changes only by turns appended or by
\* the reset that empties it.
SessionRecordsPersist == [][recordsStep]_vars

\* C18, witness: a record that an earlier request created with no turns, found
\* by an ask that appended two turns to it.
RecordCreatedThenAppended ==
    /\ evt.step = "ask"
    /\ evt.pre.exists /\ evt.pre.history = <<>>
    /\ Len(historyNow) = 2
    /\ sessions[evt.sid].createdAt = evt.pre.createdAt
    /\ sessions[evt.sid].createdAt < sessions[evt.sid].lastSeen

\* A reset has answered on a session that had a record.
resetExisting == evt.step = "reset" /\ evt.pre.exists

\* C19, as stated: reset on an existing session empties its history and
\* leaves its identifier, its createdAt and its lastSeen as they were.
ResetKeepsTimestamps ==
    resetExisting =>
        /\ sessions[evt.sid].history = <<>>
        /\ evt.sid = suppliedSid(evt.cred)
        /\ sessions[evt.sid].createdAt = evt.pre.createdAt
        /\ sessions[evt.sid].lastSeen = evt.pre.lastSeen

\* C19, amended: reset on an existing session empties its history and leaves
\* its identifier and its createdAt as they were; lastSeen becomes the time
\* of the reset request.
ResetRefreshesLastSeen ==
    resetExisting =>
        /\ sessions[evt.sid].history = <<>>
        /\ evt.sid = suppliedSid(evt.cred)
        /\ sessions[evt.sid].createdAt = evt.pre.createdAt
        /\ sessions[evt.sid].lastSeen = DateNow(evt.rid)
        /\ sessions[evt.sid].lastSeen > evt.pre.lastSeen

\* C19, witness: a reset emptied a history of two turns and moved lastSeen.
ResetOnUsedSessionMovesLastSeen ==
    /\ resetExisting
    /\ Len(evt.pre.history) >= 2
    /\ sessions[evt.sid].history = <<>>
    /\ sessions[evt.sid].createdAt = evt.pre.createdAt
    /\ sessions[evt.sid].lastSeen # evt.pre.lastSeen

\* The gate of lines 332-333 lets a result through: it is not empty and its
\* top score is at least 0.18.
gatePassed(scored) ==
    /\ Len(scored) >= 1
    /\ scored[1].score.num > 0
    /\ 10000 * scored[1].score.num * scored[1].score.num >= 324 * Den2(scored[1].score)

\* C20: an ask has made at most one embedding call and at most one generation
\* call; it has made a generation call only when its embedding call had
\* returned a result that passed the gate; and a failed call ends the request
\* with an error, with no call after it.
OneCallEachNoRetry ==
    /\ \A slot \in Slots :
        LET r == req[slot]
        IN  /\ r.pc = "idle" => r.embedCalls = 0 /\ r.genCalls = 0
            /\ r.pc = "embed" => r.embedCalls = 1 /\ r.genCalls = 0
            /\ r.pc = "gen" => r.embedCalls = 1 /\ r.genCalls = 1 /\ gatePassed(r.scored)
    /\ evt.embedCalls <= 1 /\ evt.genCalls <= 1
    /\ evt.genCalls = 1 => evt.embedCalls = 1
    /\ (evt.genCalls = 1 /\ ~evt.backendFailed) => gatePassed(evt.scored)
    /\ (evt.step = "embedReturn" /\ evt.backendFailed) => evt.genCalls = 0
    /\ evt.backendFailed =>
        /\ evt.responded /\ evt.error
        /\ \A slot \in Slots : req[slot].rid = evt.rid => req[slot].pc = "idle"

\* C20, witness: the generation call of an ask failed after its one embedding
\* call, and the request has ended.
FailedGenerationEndsRequest ==
    /\ evt.step = "genReturn" /\ evt.backendFailed
    /\ evt.embedCalls = 1 /\ evt.genCalls = 1
    /\ evt.responded /\ evt.error
    /\ \A slot \in Slots : req[slot].pc = "idle"

\* A handler is suspended on a backend call, or on one that never returns.
inFlight(slot) == req[slot].pc \in {"embed", "gen", "hung"}

\* The backend call of request rid never returns.
hung(rid) == \E slot \in Slots : req[slot].pc = "hung" /\ req[slot].rid = rid

\* While a handler is in flight every route takes a new request; the model
\* holds a new ask when one of its slots is free.
takesRequests ==
    ((\E slot \in Slots : inFlight(slot)) /\ started < MaxRequests) =>
        /\ ENABLED Health
        /\ ENABLED Reset(MainCreds, MaxRequests)
        /\ ENABLED SessionInfo(MainCreds, MaxRequests)
        /\ (\E slot \in Slots : req[slot].pc = "idle")
            => ENABLED AskStart(MainCreds, LiveBodies, MaxRequests)

\* No request has two responses, and a request that has its response or whose
\* call never returns has none to come.
oneResponseAtMost ==
    /\ \A rid \in DOMAIN responses :
        /\ responses[rid] = 1
        /\ \A slot \in Slots : req[slot].pc # "idle" => req[slot].rid # rid
    /\ \A rid \in 1..started : hung(rid) => rid \notin DOMAIN responses

\* C21: requests do not wait for one another.  While an ask is suspended, also
\* on a call that never returns, health, reset, sessionInfo and ask requests
\* are taken, on its session too; every request whose backend calls return gets
\* its response in the end, and no request gets more than one.
RequestsDoNotWait ==
    /\ []takesRequests
    /\ []oneResponseAtMost
    /\ \A rid \in 1..MaxRequests :
        (started >= rid) ~> (hung(rid) \/ (rid \in DOMAIN responses /\ responses[rid] = 1))

\* C21, witness: an ask was answered after generation while an older ask of
\* the same session waits on a call that never returns.
AnsweredBesideHungAsk ==
    /\ evt.step = "genReturn" /\ evt.responded /\ evt.route = "answered"
    /\ responses[evt.rid] = 1
    /\ \E slot \in Slots :
        /\ req[slot].pc = "hung"
        /\ req[slot].sid = evt.sid
        /\ req[slot].rid < evt.rid

\* chunkText runs with 0 <= overlap < size.
chunkingInRange ==
    indexer.pc = "chunk" /\ 0 <= indexer.overlap /\ indexer.overlap < indexer.size

\* An iteration of chunkText either goes on, with start moved forward by
\* size - overlap, or leaves the loop behind a window that ends at the end of
\* the text (behind no window when the text is empty).
chunkIteration ==
    chunkingInRange =>
        /\ indexer'.pc = "chunk" =>
            /\ indexer'.start = indexer.start + indexer.size - indexer.overlap
            /\ indexer'.start > indexer.start
        /\ indexer'.pc = "embed" =>
            \/ indexer.text = <<>> /\ indexer'.windows = <<>>
            \/ /\ indexer'.windows # <<>>
               /\ indexer'.windows[Len(indexer'.windows)].end = Len(indexer.text)

\* C22: for 0 <= overlap < chunkSize the chunker terminates on every text;
\* the start of the window grows at every iteration, by chunkSize - overlap,
\* until a window ends at the end of the text, and that window is the last.
ChunkerTerminates ==
    /\ [][chunkIteration]_vars
    /\ chunkingInRange ~> indexer.pc = "embed"
    /\ [](chunked /\ 0 <= indexer.overlap =>
            \A k \in DOMAIN indexer.windows :
                indexer.windows[k].end = Len(indexer.text) <=> k = Len(indexer.windows))

\* C22, witness: a text cut into three windows, the last one shorter than the
\* chunk size.
ThreeWindowsLastPartial ==
    /\ chunked
    /\ indexer.overlap >= 0
    /\ Len(indexer.windows) = 3
    /\ indexer.windows[3].end = Len(indexer.text)
    /\ indexer.windows[3].end - indexer.windows[3].start < indexer.size

\* Turn k of a history is a user turn when k is odd and an assistant turn of
\* the same request when k is even.
alternates(history) ==
    /\ Len(history) % 2 = 0
    /\ \A k \in DOMAIN history :
        IF k % 2 = 1
        THEN history[k].role = "user"
        ELSE /\ history[k].role = "assistant"
             /\ history[k].rid = history[k - 1].rid

\* C23: with the requests of a session handled one at a time and no backend
\* call failing, the history between requests has even length and alternates
\* user, assistant from a user turn, and an ask that has answered has left
\* its question and the reply it returned as the last two turns.
SerialHistoryAlternates ==
    allIdle =>
        /\ \A sid \in DOMAIN sessions : alternates(sessions[sid].history)
        /\ (evt.responded /\ evt.step \in {"ask", "embedReturn", "genReturn"}
                /\ evt.route # "invalid") =>
            LET h == historyNow
            IN  /\ Len(h) >= 2
                /\ h[Len(h) - 1].role = "user"
                /\ h[Len(h) - 1].content = evt.q
                /\ h[Len(h) - 1].rid = evt.rid
                /\ h[Len(h)].role = "assistant"
                /\ h[Len(h)].content = evt.answer
                /\ h[Len(h)].rid = evt.rid

\* C23, witness: a history of four turns left by the third and the fourth
\* request of a session, the last of them answered by the generation call.
TwoExchangesAfterEarlierRequests ==
    /\ allIdle
    /\ evt.step = "genReturn" /\ evt.route = "answered"
    /\ Len(historyNow) = 4
    /\ historyNow[1].rid = 3
    /\ historyNow[3].rid = 4
    /\ historyNow[4].content = evt.answer

\* A generation call has come back with a reply right after a reset of the
\* session of its ask.
answeredAfterReset ==
    /\ evt.step = "genReturn" /\ ~evt.backendFailed
    /\ prev.step = "reset" /\ prev.sid = evt.sid

\* C24: a reset that completes while an ask of the session waits on its
\* generation call does not cancel the ask: when the call returns the ask
\* answers and appends its assistant turn to the emptied history, which then
\* holds one turn, an assistant turn with no user turn before it.
ResetDoesNotCancelAsk ==
    answeredAfterReset =>
        /\ evt.responded /\ evt.status = 200 /\ evt.route = "answered"
        /\ evt.pre.history = <<>>
        /\ Len(historyNow) = 1
        /\ historyNow[1].role = "assistant"
        /\ historyNow[1].content = evt.answer
        /\ historyNow[1].rid = evt.rid

\* C24, witness: the reset had emptied a history that held the user turn of
\* the waiting ask, and the history now starts with an assistant turn.
AssistantTurnOnClearedHistory ==
    /\ answeredAfterReset
    /\ prev.preLen >= 1
    /\ Len(historyNow) # 0
    /\ historyNow[1].role = "assistant"
    /\ \A k \in DOMAIN historyNow : historyNow[k].role # "user"

\* The marker words counted in a question: those that stand between spaces
\* or the ends of its lower-cased text.
markersCounted(q) ==
    Cardinality(Range(hinglishTokens) \cap spaceTokens(toLowerCase(q), 1, <<>>))

\* C25: the chat-cue bonus never changes the mode: a question without
\* Devanagari is hinglish exactly when at least 2 distinct marker words are
\* counted in it, with a chat cue or without.
ChatCueNeverDecides ==
    (askedText /\ ~hasDevanagari(evt.q)) =>
        (evt.mode = "hinglish" <=> markersCounted(evt.q) >= 2)

\* C25, witness: a question with one marker word and a chat cue, a score of
\* 1.5, is english.
OneMarkerWithCueEnglish ==
    /\ askedText
    /\ ~hasDevanagari(evt.q)
    /\ markersCounted(evt.q) = 1
    /\ hasChatCue(toLowerCase(evt.q))
    /\ evt.mode = "english"

\* The fields of a loaded chunk record.
recordFields == {"id", "text_original", "text_cleaned", "embedding"}

\* Every ranked record is a loaded record with a score beside its fields.
scoredAreCopies ==
    \A i \in 1..Len(evt.scored) :
        /\ "score" \in DOMAIN evt.scored[i]
        /\ \E j \in 1..Len(VECTORS) :
             VECTORS[j] = [f \in recordFields |-> evt.scored[i][f]]

\* C26: the loaded index is read-only after startup: no step of an ask, reset,
\* session or health request, concurrent or not, changes the set, the order
\* or the content of the loaded chunk records, and a retrieval ranks scored
\* copies of them.
LoadedIndexIsReadOnly ==
    [][/\ VECTORS' = VECTORS
       /\ retrieved' => scoredAreCopies']_vars

\* C26, witness: while another request is in flight, an ask has ranked the
\* third loaded chunk second, and the loaded records are in file order and
\* carry no score.
RankedCopyBesideLoadedOrder ==
    /\ retrieved
    /\ \E s \in Slots : req[s].pc # "idle" /\ req[s].rid # evt.rid
    /\ Len(VECTORS) = 3
    /\ Len(evt.scored) = 2
    /\ evt.scored[2].id = VECTORS[3].id
    /\ VECTORS = indexFile.vectors
    /\ \A j \in 1..3 : DOMAIN VECTORS[j] = recordFields

=============================================================================
